---------------------------- MODULE Spec2Model ----------------------------
(***************************************************************************)
(* Model of tmux-ultimate's configuration generator                        *)
(* (src/tmux_generator.py, class TmuxConfigGenerator).                     *)
(*                                                                         *)
(* A generator object is constructed from an untrusted config_data value   *)
(* (__init__ -> _sanitize_config) and then asked, any number of times, to  *)
(* render the configuration text (generate_config).                        *)
(*                                                                         *)
(* Python values are modelled as records of one fixed shape                *)
(*     [t: type name, b: bool payload, i: int payload, s: str payload,     *)
(*      l: list payload]                                                   *)
(* so that values of different Python types can be compared.  A bool       *)
(* carries its integer value in i, as Python's bool is a subclass of int.  *)
(*                                                                         *)
(* The rendered text is modelled as the sequence of its lines; the final   *)
(* "\n".join is a bijection on such sequences because no line holds a      *)
(* newline.  The box-drawing banner rule of the source is written with     *)
(* ASCII '=' characters.                                                   *)
(***************************************************************************)
EXTENDS Integers, Sequences, FiniteSets, TLC

VARIABLES
    base,     \* the mapping the caller started from, before editing it
    raw,      \* the config_data argument handed to __init__
    pc,       \* "start" (not constructed), "ready" (constructed), "failed"
    config,   \* self.config: the sanitized record; empty before construction
    err,      \* the exception the last operation raised, or "none"
    lines,    \* self.lines: the line buffer of the generator object
    out,      \* the text returned by the last generate_config, as lines
    calls,    \* number of generate_config calls made so far
    now,      \* the wall clock read by datetime.now(), in seconds
    fs,       \* the files the launcher reads and writes: path -> contents
    menu,     \* the launcher: its position, its output path, its last result
    prompt    \* one question being asked: its settings, counters and answer

vars == <<base, raw, pc, config, err, lines, out, calls, now, fs, menu, prompt>>

-----------------------------------------------------------------------------
(* Bounds of the model *)

\* largest number of entries of a test fixture that are added or replaced
MaxEdits == 1

\* largest number of generate_config calls on one generator object
MaxGenerate == 2

-----------------------------------------------------------------------------
(* Python values *)

PyNone == [t |-> "NoneType", b |-> FALSE, i |-> 0, s |-> "", l |-> <<>>]
PyBool(x) == [t |-> "bool", b |-> x, i |-> IF x THEN 1 ELSE 0, s |-> "", l |-> <<>>]
PyInt(n) == [t |-> "int", b |-> FALSE, i |-> n, s |-> "", l |-> <<>>]
PyStr(x) == [t |-> "str", b |-> FALSE, i |-> 0, s |-> x, l |-> <<>>]
PyList(q) == [t |-> "list", b |-> FALSE, i |-> 0, s |-> "", l |-> q]
PyDict == [t |-> "dict", b |-> FALSE, i |-> 0, s |-> "", l |-> <<>>]

\* isinstance(value, expected_type) for the four types the defaults use
IsInstance(v, ty) == v.t = ty \/ (ty = "int" /\ v.t = "bool")

\* a value that can be hashed (a dict key lookup raises TypeError otherwise)
Hashable(v) == v.t \notin {"list", "dict"}

-----------------------------------------------------------------------------
(* _initialize_color_schemes and the defaults of _sanitize_config *)

\* self.color_schemes: scheme name -> colour role -> colour code
ColorSchemes ==
    [dracula |->
        [bg |-> "#282a36",
         fg |-> "#f8f8f2",
         current_line |-> "#44475a",
         comment |-> "#6272a4",
         cyan |-> "#8be9fd",
         green |-> "#50fa7b",
         orange |-> "#ffb86c",
         pink |-> "#ff79c6",
         purple |-> "#bd93f9",
         red |-> "#ff5555",
         yellow |-> "#f1fa8c"],
     nord |->
        [polar_night_0 |-> "#2e3440",
         polar_night_1 |-> "#3b4252",
         polar_night_2 |-> "#434c5e",
         polar_night_3 |-> "#4c566a",
         snow_storm_0 |-> "#d8dee9",
         snow_storm_1 |-> "#e5e9f0",
         snow_storm_2 |-> "#eceff4",
         frost_0 |-> "#8fbcbb",
         frost_1 |-> "#88c0d0",
         frost_2 |-> "#81a1c1",
         frost_3 |-> "#5e81ac",
         aurora_0 |-> "#bf616a",
         aurora_1 |-> "#d08770",
         aurora_2 |-> "#ebcb8b",
         aurora_3 |-> "#a3be8c",
         aurora_4 |-> "#b48ead"],
     gruvbox |->
        [bg |-> "#282828",
         fg |-> "#ebdbb2",
         red |-> "#cc241d",
         green |-> "#98971a",
         yellow |-> "#d79921",
         blue |-> "#458588",
         purple |-> "#b16286",
         aqua |-> "#689d6a",
         gray |-> "#a89984",
         orange |-> "#d65d0e"],
     solarized |->
        [base03 |-> "#002b36",
         base02 |-> "#073642",
         base01 |-> "#586e75",
         base00 |-> "#657b83",
         base0 |-> "#839496",
         base1 |-> "#93a1a1",
         base2 |-> "#eee8d5",
         base3 |-> "#fdf6e3",
         yellow |-> "#b58900",
         orange |-> "#cb4b16",
         red |-> "#dc322f",
         magenta |-> "#d33682",
         violet |-> "#6c71c4",
         blue |-> "#268bd2",
         cyan |-> "#2aa198",
         green |-> "#859900"],
     catppuccin |->
        [rosewater |-> "#f5e0dc",
         flamingo |-> "#f2cdcd",
         pink |-> "#f5c2e7",
         mauve |-> "#cba6f7",
         red |-> "#f38ba8",
         maroon |-> "#eba0ac",
         peach |-> "#fab387",
         yellow |-> "#f9e2af",
         green |-> "#a6e3a1",
         teal |-> "#94e2d5",
         sky |-> "#89dceb",
         sapphire |-> "#74c7ec",
         blue |-> "#89b4fa",
         lavender |-> "#b4befe",
         text |-> "#cdd6f4",
         subtext1 |-> "#bac2de",
         subtext0 |-> "#a6adc8",
         overlay2 |-> "#9399b2",
         overlay1 |-> "#7f849c",
         overlay0 |-> "#6c7086",
         surface2 |-> "#585b70",
         surface1 |-> "#45475a",
         surface0 |-> "#313244",
         base |-> "#1e1e2e",
         mantle |-> "#181825",
         crust |-> "#11111b"],
     lfgm |->
        [bg |-> "#002d72",
         fg |-> "#ffffff",
         primary_blue |-> "#002d72",
         primary_orange |-> "#ff671f",
         secondary_blue |-> "#0047ab",
         secondary_orange |-> "#ff8c00",
         light_blue |-> "#4472c4",
         light_orange |-> "#ffa366",
         dark_blue |-> "#001a44",
         white |-> "#ffffff",
         black |-> "#000000",
         gray |-> "#cccccc"]]

\* the keys of self.color_schemes
ColorSchemeNames == DOMAIN ColorSchemes

\* the defaults dictionary of _sanitize_config
Defaults ==
    [prefix_key |-> PyStr("C-b"),
     custom_prefix |-> PyStr(""),
     enable_mouse |-> PyBool(TRUE),
     color_scheme |-> PyStr("default"),
     show_time |-> PyBool(TRUE),
     show_date |-> PyBool(TRUE),
     show_hostname |-> PyBool(FALSE),
     show_session_name |-> PyBool(TRUE),
     status_position |-> PyStr("bottom"),
     history_limit |-> PyInt(5000),
     automatic_rename |-> PyBool(FALSE),
     renumber_windows |-> PyBool(TRUE),
     base_index |-> PyInt(1),
     pane_base_index |-> PyInt(1),
     terminal_mode |-> PyStr("emacs"),
     enable_256_colors |-> PyBool(TRUE),
     enable_true_colors |-> PyBool(TRUE),
     vim_navigation |-> PyBool(FALSE),
     vim_copy_mode |-> PyBool(FALSE),
     use_tpm |-> PyBool(FALSE),
     plugins |-> PyList(<<>>),
     enable_copy_paste |-> PyBool(FALSE),
     enable_pane_synchronization |-> PyBool(FALSE),
     enable_logging |-> PyBool(FALSE)]

\* the known fields: the keys of the defaults dictionary
KnownKeys == DOMAIN Defaults

\* the record a generator holds before it has been constructed
NoConfig == [k \in {} |-> PyNone]

-----------------------------------------------------------------------------
(* _sanitize_config, step by step *)

\* Overlay as a plain dict update would do it: every entry of the input whose
\* type fits, or whose key is unknown, lands in the record
Overlay_UpdateAll(d) ==
    [k \in KnownKeys \cup DOMAIN d |->
        IF k \in DOMAIN d /\ (k \notin KnownKeys \/ IsInstance(d[k], Defaults[k].t))
        THEN d[k] ELSE Defaults[k]]

\* lines 175-187: overlay of the user's entries on the defaults.  An entry is
\* taken when its key is known and isinstance(value, type(defaults[key]));
\* every other entry only prints a warning.
Overlay(d) ==
    [k \in KnownKeys |->
        IF k \in DOMAIN d /\ IsInstance(d[k], Defaults[k].t) THEN d[k] ELSE Defaults[k]]

\* lines 190-197: unknown color scheme -> "default"
CheckColorScheme(c) ==
    IF c.color_scheme.s \notin ColorSchemeNames /\ c.color_scheme.s # "default"
    THEN [c EXCEPT !.color_scheme = PyStr("default")]
    ELSE c

\* CheckHistoryLimit with the lower boundary excluded
CheckHistoryLimit_OffByOne(c) ==
    IF c.history_limit.i <= 100 \/ c.history_limit.i > 1000000
    THEN [c EXCEPT !.history_limit = PyInt(5000)]
    ELSE c

\* lines 199-203: history limit outside 100..1000000 -> 5000
CheckHistoryLimit(c) ==
    IF c.history_limit.i < 100 \/ c.history_limit.i > 1000000
    THEN [c EXCEPT !.history_limit = PyInt(5000)]
    ELSE c

\* CheckBaseIndex with the second reset written to the wrong field
CheckBaseIndex_WrongField(c) ==
    IF c.base_index.i \notin {0, 1}
    THEN [c EXCEPT !.base_index = PyInt(1), !.history_limit = PyInt(1)]
    ELSE c

\* lines 205-208: base_index not in [0, 1] -> both indexes 1
CheckBaseIndex(c) ==
    IF c.base_index.i \notin {0, 1}
    THEN [c EXCEPT !.base_index = PyInt(1), !.pane_base_index = PyInt(1)]
    ELSE c

\* CheckTerminalMode falling back to the questionnaire's default, "vi"
CheckTerminalMode_ViDefault(c) ==
    IF c.terminal_mode.s \notin {"emacs", "vi"}
    THEN [c EXCEPT !.terminal_mode = PyStr("vi")]
    ELSE c

\* lines 210-214: terminal_mode not in ["emacs", "vi"] -> "emacs"
CheckTerminalMode(c) ==
    IF c.terminal_mode.s \notin {"emacs", "vi"}
    THEN [c EXCEPT !.terminal_mode = PyStr("emacs")]
    ELSE c

\* lines 216-220: status_position not in ["top", "bottom"] -> "bottom"
CheckStatusPosition(c) ==
    IF c.status_position.s \notin {"top", "bottom"}
    THEN [c EXCEPT !.status_position = PyStr("bottom")]
    ELSE c

\* lines 222-227: plugins that is not a list -> []
CheckPlugins(c) ==
    IF ~IsInstance(c.plugins, "list")
    THEN [c EXCEPT !.plugins = PyList(<<>>)]
    ELSE c

\* _sanitize_config(config_data) for a mapping d
SanitizeConfig(d) ==
    CheckPlugins(CheckStatusPosition(CheckTerminalMode(CheckBaseIndex(
        CheckHistoryLimit(CheckColorScheme(Overlay(d)))))))

-----------------------------------------------------------------------------
(* String formatting used by the f-strings of the renderer *)

Digit(d) ==
    CASE d = 0 -> "0" [] d = 1 -> "1" [] d = 2 -> "2" [] d = 3 -> "3" [] d = 4 -> "4"
      [] d = 5 -> "5" [] d = 6 -> "6" [] d = 7 -> "7" [] d = 8 -> "8" [] d = 9 -> "9"

RECURSIVE NatToStr(_)
NatToStr(n) == IF n < 10 THEN Digit(n) ELSE NatToStr(n \div 10) \o Digit(n % 10)

\* str(n) for an int
IntToStr(n) == IF n < 0 THEN "-" \o NatToStr(0 - n) ELSE NatToStr(n)

\* f"{value}" for the values a sanitized scalar field can hold
PyFormat(v) ==
    CASE v.t = "str" -> v.s
      [] v.t = "int" -> IntToStr(v.i)
      [] v.t = "bool" -> (IF v.b THEN "True" ELSE "False")
      [] OTHER -> "None"

\* scheme.title() for the registered scheme names
Title(scheme) ==
    CASE scheme = "dracula" -> "Dracula"
      [] scheme = "nord" -> "Nord"
      [] scheme = "gruvbox" -> "Gruvbox"
      [] scheme = "solarized" -> "Solarized"
      [] scheme = "catppuccin" -> "Catppuccin"
      [] scheme = "lfgm" -> "Lfgm"

RECURSIVE JoinBar(_)
\* ' | '.join(parts)
JoinBar(parts) ==
    IF parts = <<>> THEN ""
    ELSE IF Len(parts) = 1 THEN parts[1]
    ELSE parts[1] \o " | " \o JoinBar(Tail(parts))

\* datetime.now().strftime('%Y-%m-%d %H:%M:%S') when the clock reads n seconds
Timestamp(n) == "2025-01-01 00:00:" \o (IF n < 10 THEN "0" ELSE "") \o NatToStr(n)

\* the rule that opens and closes every section banner
Rule == "# ==================================================================="

Banner(title) == <<Rule, "# " \o title, Rule, "">>

-----------------------------------------------------------------------------
(* The sections of generate_config; each yields the lines it appends *)

AddHeader(ts) ==
    <<Rule,
      "# Ultimate TMUX Configuration",
      "# Generated on: " \o ts,
      "# Generated by: TMUX Ultimate Configuration Generator",
      Rule,
      "",
      "# Reload configuration with Prefix + r",
      "bind r source-file ~/.tmux.conf \\; display-message \"Config reloaded!\"",
      "">>

\* the prefix both _add_core_settings and _add_vim_integration resolve
ResolvedPrefix(c) ==
    IF c.prefix_key.s = "custom" THEN c.custom_prefix.s ELSE c.prefix_key.s

\* AddCoreSettings that sets the prefix only when it is not tmux's own
AddCoreSettings_PrefixOnlyIfChanged(c) ==
    LET prefix == ResolvedPrefix(c) IN
    Banner("CORE SETTINGS")
    \o (IF prefix # "C-b"
        THEN <<"# Set prefix key", "set -g prefix " \o prefix, "",
               "# Unbind default prefix and set new prefix",
               "unbind C-b",
               "bind " \o prefix \o " send-prefix",
               "">>
        ELSE <<>>)
    \o (IF c.enable_mouse.b
        THEN <<"# Enable mouse support", "set -g mouse on", "">>
        ELSE <<>>)

\* AddCoreSettings that writes prefix_key as it is, "custom" included
AddCoreSettings_KeyNotResolved(c) ==
    LET prefix == c.prefix_key.s IN
    Banner("CORE SETTINGS")
    \o <<"# Set prefix key", "set -g prefix " \o prefix, "">>
    \o (IF prefix # "C-b"
        THEN <<"# Unbind default prefix and set new prefix",
               "unbind C-b",
               "bind " \o prefix \o " send-prefix",
               "">>
        ELSE <<>>)
    \o (IF c.enable_mouse.b
        THEN <<"# Enable mouse support", "set -g mouse on", "">>
        ELSE <<>>)

\* AddCoreSettings that unbinds C-b whatever the prefix is
AddCoreSettings_AlwaysUnbind(c) ==
    LET prefix == ResolvedPrefix(c) IN
    Banner("CORE SETTINGS")
    \o <<"# Set prefix key", "set -g prefix " \o prefix, "">>
    \o <<"# Unbind default prefix and set new prefix",
         "unbind C-b",
         "bind " \o prefix \o " send-prefix",
         "">>
    \o (IF c.enable_mouse.b
        THEN <<"# Enable mouse support", "set -g mouse on", "">>
        ELSE <<>>)

AddCoreSettings(c) ==
    LET prefix == ResolvedPrefix(c) IN
    Banner("CORE SETTINGS")
    \o <<"# Set prefix key", "set -g prefix " \o prefix, "">>
    \o (IF prefix # "C-b"
        THEN <<"# Unbind default prefix and set new prefix",
               "unbind C-b",
               "bind " \o prefix \o " send-prefix",
               "">>
        ELSE <<>>)
    \o (IF c.enable_mouse.b
        THEN <<"# Enable mouse support", "set -g mouse on", "">>
        ELSE <<>>)

\* AddColorScheme without the branch for lfgm: only the heading is written
AddColorScheme_NoLfgmBranch(scheme) ==
    IF scheme \notin ColorSchemeNames THEN <<>>
    ELSE
    LET colors == ColorSchemes[scheme]
        five(sbg, sfg, cbg, cfg, pb, pab) ==
            <<"set -g status-bg '" \o sbg \o "'",
              "set -g status-fg '" \o sfg \o "'",
              "set -g window-status-current-style 'bg=" \o cbg \o ",fg=" \o cfg \o "'",
              "set -g pane-border-style 'fg=" \o pb \o "'",
              "set -g pane-active-border-style 'fg=" \o pab \o "'">>
    IN
    <<"# " \o Title(scheme) \o " Color Scheme", "">>
    \o (CASE scheme = "dracula" ->
              five(colors.current_line, colors.fg, colors.purple, colors.bg,
                   colors.comment, colors.purple) \o <<"">>
          [] scheme = "nord" ->
              five(colors.polar_night_0, colors.snow_storm_0, colors.frost_3,
                   colors.snow_storm_2, colors.polar_night_2, colors.frost_1) \o <<"">>
          [] scheme = "gruvbox" ->
              five(colors.bg, colors.fg, colors.orange, colors.bg,
                   colors.gray, colors.orange) \o <<"">>
          [] scheme = "solarized" ->
              five(colors.base02, colors.base0, colors.blue, colors.base3,
                   colors.base01, colors.blue) \o <<"">>
          [] scheme = "catppuccin" ->
              five(colors.base, colors.text, colors.mauve, colors.base,
                   colors.surface0, colors.mauve) \o <<"">>
          [] scheme = "lfgm" -> <<>>)

AddColorScheme(scheme) ==
    IF scheme \notin ColorSchemeNames THEN <<>>
    ELSE
    LET colors == ColorSchemes[scheme]
        five(sbg, sfg, cbg, cfg, pb, pab) ==
            <<"set -g status-bg '" \o sbg \o "'",
              "set -g status-fg '" \o sfg \o "'",
              "set -g window-status-current-style 'bg=" \o cbg \o ",fg=" \o cfg \o "'",
              "set -g pane-border-style 'fg=" \o pb \o "'",
              "set -g pane-active-border-style 'fg=" \o pab \o "'">>
    IN
    <<"# " \o Title(scheme) \o " Color Scheme", "">>
    \o (CASE scheme = "dracula" ->
              five(colors.current_line, colors.fg, colors.purple, colors.bg,
                   colors.comment, colors.purple) \o <<"">>
          [] scheme = "nord" ->
              five(colors.polar_night_0, colors.snow_storm_0, colors.frost_3,
                   colors.snow_storm_2, colors.polar_night_2, colors.frost_1) \o <<"">>
          [] scheme = "gruvbox" ->
              five(colors.bg, colors.fg, colors.orange, colors.bg,
                   colors.gray, colors.orange) \o <<"">>
          [] scheme = "solarized" ->
              five(colors.base02, colors.base0, colors.blue, colors.base3,
                   colors.base01, colors.blue) \o <<"">>
          [] scheme = "catppuccin" ->
              five(colors.base, colors.text, colors.mauve, colors.base,
                   colors.surface0, colors.mauve) \o <<"">>
          [] scheme = "lfgm" ->
              five(colors.primary_blue, colors.white, colors.primary_orange, colors.white,
                   colors.secondary_blue, colors.primary_orange)
              \o <<"set -g status-left-style 'bg=" \o colors.primary_orange
                       \o ",fg=" \o colors.white \o "'",
                   "set -g status-right-style 'bg=" \o colors.light_blue
                       \o ",fg=" \o colors.white \o "'",
                   "set -g window-status-style 'bg=" \o colors.secondary_blue
                       \o ",fg=" \o colors.white \o "'",
                   "set -g message-style 'bg=" \o colors.primary_orange
                       \o ",fg=" \o colors.white \o "'",
                   "set -g message-command-style 'bg=" \o colors.light_orange
                       \o ",fg=" \o colors.dark_blue \o "'",
                   "">>)

\* AddStatusBarConfig that writes the date before the hostname
AddStatusBarConfig_DateFirst(c) ==
    LET status_left == IF c.show_session_name.b THEN <<"#S">> ELSE <<>>
        status_right ==
            (IF c.show_date.b THEN <<"%Y-%m-%d">> ELSE <<>>)
            \o (IF c.show_hostname.b THEN <<"#H">> ELSE <<>>)
            \o (IF c.show_time.b THEN <<"%H:%M">> ELSE <<>>)
    IN
    IF status_left # <<>> \/ status_right # <<>>
    THEN <<"# Status bar configuration",
           "set -g status-left '[" \o JoinBar(status_left) \o "] '",
           "set -g status-right ' " \o JoinBar(status_right) \o "'",
           "set -g status-left-length 50",
           "set -g status-right-length 50",
           "">>
    ELSE <<>>

AddStatusBarConfig(c) ==
    LET status_left == IF c.show_session_name.b THEN <<"#S">> ELSE <<>>
        status_right ==
            (IF c.show_hostname.b THEN <<"#H">> ELSE <<>>)
            \o (IF c.show_date.b THEN <<"%Y-%m-%d">> ELSE <<>>)
            \o (IF c.show_time.b THEN <<"%H:%M">> ELSE <<>>)
    IN
    IF status_left # <<>> \/ status_right # <<>>
    THEN <<"# Status bar configuration",
           "set -g status-left '[" \o JoinBar(status_left) \o "] '",
           "set -g status-right ' " \o JoinBar(status_right) \o "'",
           "set -g status-left-length 50",
           "set -g status-right-length 50",
           "">>
    ELSE <<>>

AddAppearanceSettings(c) ==
    Banner("APPEARANCE & STATUS BAR")
    \o (IF c.enable_256_colors.b
        THEN <<"# Enable 256 colors", "set -g default-terminal \"screen-256color\"", "">>
        ELSE <<>>)
    \o (IF c.enable_true_colors.b
        THEN <<"# Enable true color support",
               "set -ga terminal-overrides \",*256col*:Tc\"",
               "">>
        ELSE <<>>)
    \o <<"# Status bar position", "set -g status-position " \o c.status_position.s, "">>
    \o (IF c.color_scheme.s # "default" THEN AddColorScheme(c.color_scheme.s) ELSE <<>>)
    \o AddStatusBarConfig(c)

\* AddBehaviorSettings with the sense of automatic_rename put right: the
\* directive that turns renaming off is written when the flag is true
AddBehaviorSettings_RenameNotInverted(c) ==
    Banner("BEHAVIOR SETTINGS")
    \o <<"# History buffer size", "set -g history-limit " \o PyFormat(c.history_limit), "">>
    \o (IF c.base_index.i # 0
        THEN <<"# Start windows and panes at 1, not 0",
               "set -g base-index " \o PyFormat(c.base_index),
               "setw -g pane-base-index " \o PyFormat(c.base_index),
               "">>
        ELSE <<>>)
    \o (IF c.automatic_rename.b
        THEN <<"# Disable automatic window renaming", "set-option -g allow-rename off", "">>
        ELSE <<>>)
    \o (IF c.renumber_windows.b
        THEN <<"# Renumber windows when a window is closed", "set -g renumber-windows on", "">>
        ELSE <<>>)

AddBehaviorSettings(c) ==
    Banner("BEHAVIOR SETTINGS")
    \o <<"# History buffer size", "set -g history-limit " \o PyFormat(c.history_limit), "">>
    \o (IF c.base_index.i # 0
        THEN <<"# Start windows and panes at 1, not 0",
               "set -g base-index " \o PyFormat(c.base_index),
               "setw -g pane-base-index " \o PyFormat(c.base_index),
               "">>
        ELSE <<>>)
    \o (IF ~c.automatic_rename.b
        THEN <<"# Disable automatic window renaming", "set-option -g allow-rename off", "">>
        ELSE <<>>)
    \o (IF c.renumber_windows.b
        THEN <<"# Renumber windows when a window is closed", "set -g renumber-windows on", "">>
        ELSE <<>>)

\* AddTerminalIntegration that writes the mode-keys option without its command
AddTerminalIntegration_BareOption(c) ==
    Banner("TERMINAL INTEGRATION")
    \o (IF c.terminal_mode.s = "vi"
        THEN <<"# Use Vi mode", "mode-keys vi", "set -g status-keys vi", "">>
        ELSE <<>>)

AddTerminalIntegration(c) ==
    Banner("TERMINAL INTEGRATION")
    \o (IF c.terminal_mode.s = "vi"
        THEN <<"# Use Vi mode", "setw -g mode-keys vi", "set -g status-keys vi", "">>
        ELSE <<>>)

\* AddVimIntegration that writes its banner whatever the flags are
AddVimIntegration_BannerAlways(c) ==
    Banner("VIM INTEGRATION")
    \o (IF c.vim_navigation.b
        THEN <<"# Vim-style pane navigation",
               "bind h select-pane -L",
               "bind j select-pane -D",
               "bind k select-pane -U",
               "bind l select-pane -R",
               "",
               "# Vim-style pane resizing",
               "bind -r H resize-pane -L 5",
               "bind -r J resize-pane -D 5",
               "bind -r K resize-pane -U 5",
               "bind -r L resize-pane -R 5",
               "">>
        ELSE <<>>)
    \o (IF c.vim_copy_mode.b
        THEN <<"# Vim-style copy mode",
               "bind P paste-buffer",
               "bind-key -T copy-mode-vi v send-keys -X begin-selection",
               "bind-key -T copy-mode-vi y send-keys -X copy-selection",
               "bind-key -T copy-mode-vi r send-keys -X rectangle-toggle",
               "">>
        ELSE <<>>)

AddVimIntegration(c) ==
    IF ~(c.vim_navigation.b \/ c.vim_copy_mode.b) THEN <<>>
    ELSE
    Banner("VIM INTEGRATION")
    \o (IF c.vim_navigation.b
        THEN <<"# Vim-style pane navigation",
               "bind h select-pane -L",
               "bind j select-pane -D",
               "bind k select-pane -U",
               "bind l select-pane -R",
               "",
               "# Vim-style pane resizing",
               "bind -r H resize-pane -L 5",
               "bind -r J resize-pane -D 5",
               "bind -r K resize-pane -U 5",
               "bind -r L resize-pane -R 5",
               "">>
        ELSE <<>>)
    \o (IF c.vim_copy_mode.b
        THEN <<"# Vim-style copy mode",
               "bind P paste-buffer",
               "bind-key -T copy-mode-vi v send-keys -X begin-selection",
               "bind-key -T copy-mode-vi y send-keys -X copy-selection",
               "bind-key -T copy-mode-vi r send-keys -X rectangle-toggle",
               "">>
        ELSE <<>>)

AddKeyBindings(c) ==
    Banner("KEY BINDINGS")
    \o <<"# Split panes using | and -",
         "bind | split-window -h",
         "bind - split-window -v",
         "unbind '\"'",
         "unbind %",
         "",
         "# Switch panes using Alt+arrow without prefix",
         "bind -n M-Left select-pane -L",
         "bind -n M-Right select-pane -R",
         "bind -n M-Up select-pane -U",
         "bind -n M-Down select-pane -D",
         "">>
    \o (IF c.enable_pane_synchronization.b
        THEN <<"# Toggle pane synchronization",
               "bind S set-window-option synchronize-panes",
               "">>
        ELSE <<>>)

\* plugin_map of _add_plugin_configuration
PluginMap ==
    [x \in {"tmux-sensible", "tmux-resurrect", "tmux-continuum", "tmux-copycat",
            "tmux-yank", "tmux-sidebar", "tmux-battery", "tmux-cpu", "tmux-net-speed"}
        |-> "tmux-plugins/" \o x]

\* "name" in plugins: list membership, by equality
InList(name, q) == \E n \in 1..Len(q) : q[n] = PyStr(name)

RECURSIVE PluginDeclarations(_)
\* the loop of lines 640-642 over the list q.  `plugin in plugin_map` hashes
\* the element, so an unhashable element raises TypeError and ends the loop
\* with the declarations made so far.
PluginDeclarations(q) ==
    IF q = <<>> THEN [lines |-> <<>>, raised |-> FALSE]
    ELSE IF ~Hashable(Head(q)) THEN [lines |-> <<>>, raised |-> TRUE]
    ELSE LET rest == PluginDeclarations(Tail(q))
             here == IF Head(q).t = "str" /\ Head(q).s \in DOMAIN PluginMap
                     THEN <<"set -g @plugin '" \o PluginMap[Head(q).s] \o "'">>
                     ELSE <<>>
         IN [lines |-> here \o rest.lines, raised |-> rest.raised]

\* AddPluginConfiguration without the early return for an empty plugin list
AddPluginConfiguration_NoEmptyCheck(c) ==
    LET plugins == c.plugins.l
        decl == PluginDeclarations(plugins)
        head == Banner("PLUGIN CONFIGURATION")
                \o <<"# List of plugins", "set -g @plugin 'tmux-plugins/tpm'", "">>
    IN
    IF ~c.use_tpm.b THEN [lines |-> <<>>, raised |-> FALSE]
    ELSE IF decl.raised THEN [lines |-> head \o decl.lines, raised |-> TRUE]
    ELSE
    [lines |->
        head \o decl.lines
        \o <<"", "# Plugin configurations", "">>
        \o (IF InList("tmux-continuum", plugins) /\ InList("tmux-resurrect", plugins)
            THEN <<"# tmux-continuum configuration",
                   "set -g @continuum-restore 'on'",
                   "set -g @continuum-save-interval '15'",
                   "">>
            ELSE <<>>)
        \o (IF InList("tmux-yank", plugins)
            THEN <<"# tmux-yank configuration",
                   "set -g @yank_selection_mouse 'clipboard'",
                   "">>
            ELSE <<>>)
        \o <<"# Initialize TMUX plugin manager (keep this line at the very bottom of tmux.conf)",
             "run '~/.tmux/plugins/tpm/tpm'",
             "">>,
     raised |-> FALSE]

\* AddPluginConfiguration that initializes TPM right after the declarations,
\* before the settings of the single plugins
AddPluginConfiguration_RunBeforeSettings(c) ==
    LET plugins == c.plugins.l
        decl == PluginDeclarations(plugins)
        head == Banner("PLUGIN CONFIGURATION")
                \o <<"# List of plugins", "set -g @plugin 'tmux-plugins/tpm'", "">>
    IN
    IF ~c.use_tpm.b THEN [lines |-> <<>>, raised |-> FALSE]
    ELSE IF plugins = <<>> THEN [lines |-> <<>>, raised |-> FALSE]
    ELSE IF decl.raised THEN [lines |-> head \o decl.lines, raised |-> TRUE]
    ELSE
    [lines |->
        head \o decl.lines
        \o <<"# Initialize TMUX plugin manager (keep this line at the very bottom of tmux.conf)",
             "run '~/.tmux/plugins/tpm/tpm'",
             "">>
        \o <<"", "# Plugin configurations", "">>
        \o (IF InList("tmux-continuum", plugins) /\ InList("tmux-resurrect", plugins)
            THEN <<"# tmux-continuum configuration",
                   "set -g @continuum-restore 'on'",
                   "set -g @continuum-save-interval '15'",
                   "">>
            ELSE <<>>)
        \o (IF InList("tmux-yank", plugins)
            THEN <<"# tmux-yank configuration",
                   "set -g @yank_selection_mouse 'clipboard'",
                   "">>
            ELSE <<>>),
     raised |-> FALSE]

\* _add_plugin_configuration: the lines appended, and whether it raised
AddPluginConfiguration(c) ==
    LET plugins == c.plugins.l
        decl == PluginDeclarations(plugins)
        head == Banner("PLUGIN CONFIGURATION")
                \o <<"# List of plugins", "set -g @plugin 'tmux-plugins/tpm'", "">>
    IN
    IF ~c.use_tpm.b THEN [lines |-> <<>>, raised |-> FALSE]
    ELSE IF plugins = <<>> THEN [lines |-> <<>>, raised |-> FALSE]
    ELSE IF decl.raised THEN [lines |-> head \o decl.lines, raised |-> TRUE]
    ELSE
    [lines |->
        head \o decl.lines
        \o <<"", "# Plugin configurations", "">>
        \o (IF InList("tmux-continuum", plugins) /\ InList("tmux-resurrect", plugins)
            THEN <<"# tmux-continuum configuration",
                   "set -g @continuum-restore 'on'",
                   "set -g @continuum-save-interval '15'",
                   "">>
            ELSE <<>>)
        \o (IF InList("tmux-yank", plugins)
            THEN <<"# tmux-yank configuration",
                   "set -g @yank_selection_mouse 'clipboard'",
                   "">>
            ELSE <<>>)
        \o <<"# Initialize TMUX plugin manager (keep this line at the very bottom of tmux.conf)",
             "run '~/.tmux/plugins/tpm/tpm'",
             "">>,
     raised |-> FALSE]

AddAdvancedFeatures(c) ==
    IF ~(c.enable_copy_paste.b \/ c.enable_logging.b) THEN <<>>
    ELSE
    Banner("ADVANCED FEATURES")
    \o (IF c.enable_copy_paste.b
        THEN <<"# System clipboard integration",
               "bind C-c run \"tmux save-buffer - | xclip -i -sel clipboard\"",
               "bind C-v run \"tmux set-buffer \\\"$(xclip -o -sel clipboard)\\\"; tmux paste-buffer\"",
               "">>
        ELSE <<>>)
    \o (IF c.enable_logging.b
        THEN <<"# Session logging",
               "bind-key H pipe-pane -o 'cat >>~/tmux-#W.log' \\; display-message 'Started logging to ~/tmux-#W.log'",
               "bind-key h pipe-pane \\; display-message 'Ended logging to ~/tmux-#W.log'",
               "">>
        ELSE <<>>)

AddFooter ==
    <<Rule,
      "# END OF CONFIGURATION",
      Rule,
      "",
      "# To apply changes:",
      "# 1. Save this file as ~/.tmux.conf",
      "# 2. Reload with: tmux source-file ~/.tmux.conf",
      "# 3. Or use the reload binding: Prefix + r",
      "">>

\* the lines one generate_config call appends to self.lines, and whether the
\* call raised before reaching its return
GenerateConfig(c, ts) ==
    LET before == AddHeader(ts) \o AddCoreSettings(c) \o AddAppearanceSettings(c)
                  \o AddBehaviorSettings(c) \o AddTerminalIntegration(c)
                  \o AddVimIntegration(c) \o AddKeyBindings(c)
        plug == AddPluginConfiguration(c)
    IN
    IF plug.raised
    THEN [lines |-> before \o plug.lines, raised |-> TRUE]
    ELSE [lines |-> before \o plug.lines \o AddAdvancedFeatures(c) \o AddFooter,
          raised |-> FALSE]

-----------------------------------------------------------------------------
(* The inputs: what a caller may hand to the constructor *)

\* one value of every kind a JSON settings file or a caller can supply
TypeProbes ==
    {PyNone, PyBool(TRUE), PyBool(FALSE), PyInt(1), PyStr("yes"), PyList(<<>>), PyDict}

\* plugin lists, with registered, unregistered and non-string elements
PluginLists ==
    {<<>>,
     <<PyStr("tmux-yank")>>,
     <<PyStr("tmux-sensible"), PyStr("unknown-plugin")>>,
     <<PyStr("tmux-resurrect"), PyStr("tmux-continuum")>>,
     <<PyInt(1)>>,
     <<PyStr("tmux-sensible"), PyNone>>,
     <<PyStr("tmux-yank"), PyList(<<>>)>>,
     <<PyDict>>}

\* keys no field is named by (the legacy names of the tests among them)
UnknownKeys == {"prefix", "mouse", "theme", "unknown_key"}

\* the values tried for each key of a raw mapping
Candidates(k) ==
    TypeProbes \cup
    (CASE k = "prefix_key" -> {PyStr("C-b"), PyStr("C-a"), PyStr("custom")}
       [] k = "custom_prefix" -> {PyStr(""), PyStr("C-x")}
       [] k = "color_scheme" ->
            {PyStr(x) : x \in ColorSchemeNames \cup {"default", "nonexistent"}}
       [] k = "status_position" -> {PyStr("top"), PyStr("bottom"), PyStr("sideways")}
       [] k = "terminal_mode" -> {PyStr("emacs"), PyStr("vi"), PyStr("invalid")}
       [] k = "history_limit" ->
            {PyInt(n) : n \in {-1000, 99, 100, 5000, 1000000, 1000001}}
       [] k \in {"base_index", "pane_base_index"} ->
            {PyInt(n) : n \in {-1, 0, 1, 2, 99}}
       [] k = "plugins" -> {PyList(q) : q \in PluginLists}
       [] OTHER -> {})

\* mappings the repository's tests construct generators from
EmptyConfig == NoConfig

\* tests/test_edge_cases.py, test_invalid_config_values
InvalidConfig ==
    [prefix_key |-> PyInt(123),
     enable_mouse |-> PyStr("yes"),
     history_limit |-> PyStr("lots"),
     color_scheme |-> PyStr("nonexistent"),
     terminal_mode |-> PyStr("invalid"),
     plugins |-> PyStr("not a list"),
     unknown_key |-> PyStr("ignored")]

\* tests/test_edge_cases.py, test_extreme_values
ExtremeConfig ==
    [history_limit |-> PyInt(-1000),
     base_index |-> PyInt(99),
     status_position |-> PyStr("sideways")]

\* tests/test_integration.py, test_legacy_config_structure
LegacyConfig ==
    [prefix |-> PyStr("C-a"), mouse |-> PyBool(TRUE), theme |-> PyStr("dracula")]

\* tests/test_generator.py, setup_method
SampleConfig ==
    [prefix_key |-> PyStr("C-b"),
     enable_mouse |-> PyBool(TRUE),
     color_scheme |-> PyStr("dracula"),
     show_time |-> PyBool(TRUE),
     show_date |-> PyBool(TRUE),
     show_hostname |-> PyBool(FALSE),
     status_position |-> PyStr("bottom"),
     history_limit |-> PyInt(5000),
     automatic_rename |-> PyBool(FALSE),
     renumber_windows |-> PyBool(TRUE),
     base_index |-> PyInt(1),
     pane_base_index |-> PyInt(1),
     terminal_mode |-> PyStr("vi"),
     enable_256_colors |-> PyBool(TRUE),
     enable_true_colors |-> PyBool(TRUE),
     vim_navigation |-> PyBool(TRUE),
     vim_copy_mode |-> PyBool(TRUE),
     use_tpm |-> PyBool(TRUE),
     plugins |-> PyList(<<PyStr("tmux-sensible"), PyStr("tmux-resurrect")>>),
     enable_logging |-> PyBool(FALSE)]

Fixtures == {EmptyConfig, InvalidConfig, ExtremeConfig, LegacyConfig, SampleConfig}

\* d with d[k] = v added or replaced
SetKey(d, k, v) == [x \in DOMAIN d \cup {k} |-> IF x = k THEN v ELSE d[x]]

\* the keys tried, in the order in which a caller edits them
KeyOrder ==
    <<"prefix_key", "custom_prefix", "enable_mouse", "color_scheme", "show_time",
      "show_date", "show_hostname", "show_session_name", "status_position",
      "history_limit", "automatic_rename", "renumber_windows", "base_index",
      "pane_base_index", "terminal_mode", "enable_256_colors", "enable_true_colors",
      "vim_navigation", "vim_copy_mode", "use_tpm", "plugins", "enable_copy_paste",
      "enable_pane_synchronization", "enable_logging",
      "prefix", "mouse", "theme", "unknown_key">>

Rank(k) == CHOOSE n \in 1..Len(KeyOrder) : KeyOrder[n] = k

\* the entries of d that the fixture f does not hold
EditedKeys(f, d) == {k \in DOMAIN d : k \notin DOMAIN f \/ f[k] # d[k]}

\* config_data as the constructor receives it: t is its Python type and d its
\* entries when it is a dict
RawDict(d) == [t |-> "dict", d |-> d]
RawOther(ty) == [t |-> ty, d |-> NoConfig]

\* the config_data values a run starts from: the fixtures, None, and values
\* that are neither None nor a mapping
RawInputs ==
    {RawDict(d) : d \in Fixtures}
    \cup {RawOther(ty) : ty \in {"NoneType", "str", "int", "list"}}

-----------------------------------------------------------------------------
(* The generator object *)

\* no launcher is running and no question is being asked while a generator
\* object is driven directly
NoFiles == << >>
NoMenu == [pc |-> "none"]
NoPrompt == [pc |-> "none"]

Init ==
    /\ raw \in RawInputs
    /\ base = raw.d
    /\ pc = "start"
    /\ config = NoConfig
    /\ err = "none"
    /\ lines = <<>>
    /\ out = <<>>
    /\ calls = 0
    /\ now = 0
    /\ fs = NoFiles
    /\ menu = NoMenu
    /\ prompt = NoPrompt

\* the caller adds or replaces one entry of the mapping it is about to pass.
\* Entries are edited in key order, each at most once, so that a mapping is
\* reached along one path only.
EditInput ==
    /\ pc = "start"
    /\ raw.t = "dict"
    /\ Cardinality(EditedKeys(base, raw.d)) < MaxEdits
    /\ \E n \in 1..Len(KeyOrder) : \E v \in Candidates(KeyOrder[n]) :
          /\ \A k \in EditedKeys(base, raw.d) : Rank(k) < n
          /\ KeyOrder[n] \in DOMAIN base => base[KeyOrder[n]] # v
          /\ raw' = RawDict(SetKey(raw.d, KeyOrder[n], v))
    /\ UNCHANGED <<base, pc, config, err, lines, out, calls, now, fs, menu, prompt>>

\* the dictionary __init__ passes to _sanitize_config: None becomes {}
ConfigData(r) == IF r.t = "NoneType" THEN NoConfig ELSE r.d

\* RejectsInput that lets a list through
RejectsInput_ListAccepted(r) == r.t \notin {"NoneType", "dict", "list"}

\* whether __init__ raises TypeError for config_data r (lines 22-28)
RejectsInput(r) == r.t \notin {"NoneType", "dict"}

\* TmuxConfigGenerator.__init__(config_data)
Construct ==
    /\ pc = "start"
    /\ IF RejectsInput(raw)
       THEN /\ pc' = "failed"
            /\ err' = "TypeError"
            /\ UNCHANGED <<config, lines>>
       ELSE /\ pc' = "ready"
            /\ config' = SanitizeConfig(ConfigData(raw))
            /\ lines' = <<>>
            /\ UNCHANGED err
    /\ UNCHANGED <<base, raw, out, calls, now, fs, menu, prompt>>

\* TmuxConfigGenerator.generate_config(), called one second after the
\* previous call
Generate ==
    /\ pc = "ready"
    /\ calls < MaxGenerate
    /\ LET g == GenerateConfig(config, Timestamp(now)) IN
       /\ lines' = lines \o g.lines
       /\ IF g.raised
          THEN err' = "TypeError" /\ UNCHANGED out
          ELSE err' = "none" /\ out' = lines'
    /\ calls' = calls + 1
    /\ now' = now + 1
    /\ UNCHANGED <<base, raw, pc, config, fs, menu, prompt>>

Next == EditInput \/ Construct \/ Generate

Spec == Init /\ [][Next]_vars

\* construction and sanitization alone
NextSanitize == EditInput \/ Construct

SpecSanitize == Init /\ [][NextSanitize]_vars

\* the values for field k that the overlay takes into the record: every other
\* entry of a mapping leaves the record, and so the rendering, as it is
Settings(k) == {v \in Candidates(k) : IsInstance(v, Defaults[k].t)}

\* the mappings the rendering tests start from: no settings at all, and the
\* sample settings of tests/test_generator.py
RenderInputs == {RawDict(EmptyConfig), RawDict(SampleConfig)}

InitRender ==
    /\ raw \in RenderInputs
    /\ base = raw.d
    /\ pc = "start"
    /\ config = NoConfig
    /\ err = "none"
    /\ lines = <<>>
    /\ out = <<>>
    /\ calls = 0
    /\ now = 0
    /\ fs = NoFiles
    /\ menu = NoMenu
    /\ prompt = NoPrompt

\* the caller sets one field of the mapping to a value the overlay takes;
\* fields are set in key order, each at most once
EditSetting ==
    /\ pc = "start"
    /\ raw.t = "dict"
    /\ Cardinality(EditedKeys(base, raw.d)) < MaxEdits
    /\ \E n \in 1..Len(KeyOrder) :
          /\ KeyOrder[n] \in KnownKeys
          /\ \A k \in EditedKeys(base, raw.d) : Rank(k) < n
          /\ \E v \in Settings(KeyOrder[n]) :
                /\ KeyOrder[n] \in DOMAIN base => base[KeyOrder[n]] # v
                /\ raw' = RawDict(SetKey(raw.d, KeyOrder[n], v))
    /\ UNCHANGED <<base, pc, config, err, lines, out, calls, now, fs, menu, prompt>>

\* construction and rendering from settings the overlay takes
NextRender == EditSetting \/ Construct \/ Generate

SpecRender == InitRender /\ [][NextRender]_vars

\* the two values of a flag
Flags == {PyBool(TRUE), PyBool(FALSE)}

\* every setting of the fields one section reads: the four flags of the
\* status bar (_add_status_bar_config), the fields of _add_behavior_settings,
\* and the flags of the sections that bind keys (_add_vim_integration,
\* _add_key_bindings, _add_advanced_features)
StatusBarSettings ==
    [show_session_name : Flags, show_hostname : Flags, show_date : Flags,
     show_time : Flags]

BehaviorSettings ==
    [history_limit : {PyInt(99), PyInt(100), PyInt(5000), PyInt(1000000)},
     base_index : {PyInt(0), PyInt(1), PyInt(2), PyBool(FALSE), PyBool(TRUE)},
     automatic_rename : Flags,
     renumber_windows : Flags]

BindingSettings ==
    [vim_navigation : Flags, vim_copy_mode : Flags, enable_copy_paste : Flags,
     enable_logging : Flags, enable_pane_synchronization : Flags]

\* the mapping f with the entries of a laid over it
Overlaid(f, a) ==
    [k \in DOMAIN f \cup DOMAIN a |-> IF k \in DOMAIN a THEN a[k] ELSE f[k]]

\* the empty and the sample mapping, with the fields of one section set in
\* every way
SectionInputs ==
    {RawDict(Overlaid(f, a)) :
        f \in {EmptyConfig, SampleConfig},
        a \in StatusBarSettings \cup BehaviorSettings \cup BindingSettings}

InitSections ==
    /\ raw \in SectionInputs
    /\ base = raw.d
    /\ pc = "start"
    /\ config = NoConfig
    /\ err = "none"
    /\ lines = <<>>
    /\ out = <<>>
    /\ calls = 0
    /\ now = 0
    /\ fs = NoFiles
    /\ menu = NoMenu
    /\ prompt = NoPrompt

\* construction and rendering from a mapping as it is
NextSections == Construct \/ Generate

SpecSections == InitSections /\ [][NextSections]_vars

-----------------------------------------------------------------------------
(* The launcher (src/tmux_ultimate.py) and the file system it works on.     *)
(* The launcher is run from its own directory, as its help text shows       *)
(* (python3 tmux_ultimate.py), so dirname(__file__) is the working          *)
(* directory and the relative names of clean_files name the same files.     *)

\* the largest number of menu choices made in one run of the launcher
MaxChoices == 4

\* the answers file the questionnaire writes and the launcher reads
ConfigJson == "tmux_config.json"

\* the file generate_config writes when it is given no output path
ScriptConf == "tmux.conf"

\* the dataclass TmuxConfig with its defaults, as asdict() returns it
TmuxConfig ==
    [prefix_key |-> PyStr("C-b"),
     custom_prefix |-> PyStr(""),
     enable_mouse |-> PyBool(TRUE),
     color_scheme |-> PyStr("default"),
     custom_colors |-> PyDict,
     show_time |-> PyBool(TRUE),
     show_date |-> PyBool(TRUE),
     show_hostname |-> PyBool(FALSE),
     show_session_name |-> PyBool(TRUE),
     show_window_status |-> PyBool(TRUE),
     history_limit |-> PyInt(5000),
     automatic_rename |-> PyBool(FALSE),
     renumber_windows |-> PyBool(TRUE),
     base_index |-> PyInt(1),
     pane_base_index |-> PyInt(1),
     terminal_mode |-> PyStr("vi"),
     enable_256_colors |-> PyBool(TRUE),
     enable_true_colors |-> PyBool(TRUE),
     vim_navigation |-> PyBool(FALSE),
     vim_copy_mode |-> PyBool(TRUE),
     use_tpm |-> PyBool(TRUE),
     plugins |-> PyList(<<PyStr("tmux-sensible"), PyStr("tmux-resurrect"),
                          PyStr("tmux-continuum"), PyStr("tmux-copycat"),
                          PyStr("tmux-yank")>>),
     enable_copy_paste |-> PyBool(FALSE),
     custom_key_bindings |-> PyList(<<>>),
     status_position |-> PyStr("bottom"),
     enable_pane_synchronization |-> PyBool(FALSE),
     enable_logging |-> PyBool(TRUE)]

\* file contents: no file, a text file (its lines), a JSON file (its value)
Absent == [kind |-> "absent"]
TextFile(l) == [kind |-> "text", lines |-> l]
JsonFile(r) == [kind |-> "json", data |-> r]

\* a tmux configuration the user wrote by hand before running the launcher
UserFile == TextFile(<<"# my own tmux.conf", "set -g prefix C-a">>)

\* the index of the last "/" of p, 0 if there is none (str.rfind + 1)
RECURSIVE LastSlash(_)
LastSlash(p) ==
    IF p = "" THEN 0
    ELSE IF SubSeq(p, Len(p), Len(p)) = "/" THEN Len(p)
    ELSE LastSlash(SubSeq(p, 1, Len(p) - 1))

\* p without trailing "/" characters; a string of slashes only is kept
RECURSIVE RStripSlash(_, _)
RStripSlash(p, whole) ==
    IF p = "" THEN whole
    ELSE IF SubSeq(p, Len(p), Len(p)) = "/" THEN RStripSlash(SubSeq(p, 1, Len(p) - 1), whole)
    ELSE p

\* os.path.dirname(p)
DirName(p) == LET head == SubSeq(p, 1, LastSlash(p)) IN RStripSlash(head, head)

\* the values of --output tried: a bare name in the working directory, the
\* default ~/.tmux.conf (expanded), the path of the usage examples, a path
\* whose directory is missing and a path whose directory is read-only
OutputPaths ==
    {"tmux.conf", "/home/user/.tmux.conf", "/tmp/test.conf",
     "/missing/tmux.conf", "/etc/tmux.conf"}

\* the directories that exist, and those the user may write to
ExistingDirs == {"/home/user", "/tmp", "/etc"}
WritableDirs == {"/home/user", "/tmp"}

\* every path of the model
Paths == {ConfigJson, ScriptConf} \cup OutputPaths

\* os.path.exists(p) for a file of the model
Exists(f, p) == f[p].kind # "absent"

\* check_output_file_safety(output_path) on the file system f
CheckOutputFileSafety(f, path) ==
    IF Exists(f, path) THEN FALSE
    ELSE IF DirName(path) # "" /\ DirName(path) \notin ExistingDirs THEN FALSE
    ELSE IF DirName(path) # "" /\ DirName(path) \notin WritableDirs THEN FALSE
    ELSE TRUE

\* open(path, 'w') succeeds: the directory is there and can be written to
CanOpenForWrite(path) ==
    DirName(path) = "" \/ (DirName(path) \in ExistingDirs /\ DirName(path) \in WritableDirs)

\* generate_config that opens the output file without looking for it first
LauncherGenerate_NoExistsCheck(f, path, ts) ==
    IF ~Exists(f, ConfigJson) \/ f[ConfigJson].kind # "json"
       \/ RejectsInput(f[ConfigJson].data)
    THEN [fs |-> f, ok |-> FALSE]
    ELSE LET g == GenerateConfig(SanitizeConfig(ConfigData(f[ConfigJson].data)), ts) IN
         IF g.raised \/ ~CanOpenForWrite(path)
         THEN [fs |-> f, ok |-> FALSE]
         ELSE [fs |-> [f EXCEPT ![path] = TextFile(g.lines)], ok |-> TRUE]

\* generate_config(output_path) of the launcher on the file system f at time
\* ts: the file system it leaves and the value it returns.  A missing answers
\* file returns False; a file json.load cannot parse, a value the generator
\* rejects, a failing render and a failing open all raise into the except
\* clause, which returns False
LauncherGenerate(f, path, ts) ==
    IF ~Exists(f, ConfigJson) \/ f[ConfigJson].kind # "json"
       \/ RejectsInput(f[ConfigJson].data)
    THEN [fs |-> f, ok |-> FALSE]
    ELSE LET g == GenerateConfig(SanitizeConfig(ConfigData(f[ConfigJson].data)), ts) IN
         IF g.raised \/ Exists(f, path) \/ ~CanOpenForWrite(path)
         THEN [fs |-> f, ok |-> FALSE]
         ELSE [fs |-> [f EXCEPT ![path] = TextFile(g.lines)], ok |-> TRUE]

\* clean_files(): the answers file and tmux.conf of the working directory
\* are deleted if they exist
CleanFiles(f) == [f EXCEPT ![ConfigJson] = Absent, ![ScriptConf] = Absent]

\* the records a completed questionnaire leaves: the defaults accepted, and
\* a run that turned the plugin manager off and chose a colour scheme
QuestionnaireRuns ==
    {TmuxConfig,
     [TmuxConfig EXCEPT !.use_tpm = PyBool(FALSE), !.plugins = PyList(<<>>),
                        !.color_scheme = PyStr("nord")]}

\* questionnaire main(): the answers are saved and returned
SaveConfig(f, answers) == [f EXCEPT ![ConfigJson] = JsonFile(RawDict(answers))]

\* the answers files found at start: none, one left by an earlier run, one
\* holding a JSON list, one that is not JSON
StartJson ==
    {Absent, JsonFile(RawDict(SampleConfig)), JsonFile(RawOther("list")),
     TextFile(<<"not json">>)}

\* no generator object is driven directly while the launcher runs: each
\* generate_config of the launcher builds its own and drops it
InitLauncher ==
    /\ raw = RawOther("NoneType")
    /\ base = NoConfig
    /\ pc = "start"
    /\ config = NoConfig
    /\ err = "none"
    /\ lines = <<>>
    /\ out = <<>>
    /\ calls = 0
    /\ now = 0
    /\ prompt = NoPrompt
    /\ \E o \in OutputPaths : \E j \in StartJson : \E t \in {Absent, UserFile} :
          /\ fs = [p \in Paths |-> IF p = ConfigJson THEN j ELSE IF p = o THEN t ELSE Absent]
          /\ menu = [pc |-> "start", output |-> o, last |-> "none", result |-> "None",
                     choices |-> 0, successes |-> 0]

\* what a menu choice leaves of the launcher's own position
Chosen(name, res, ok) ==
    [menu EXCEPT !.last = name, !.result = res, !.choices = @ + 1,
                 !.successes = IF ok THEN @ + 1 ELSE @]

\* the variables of a generator object, which the launcher never touches
generator == <<base, raw, pc, config, err, lines, out, calls, prompt>>

\* main(), up to the menu: the safety check of the output path
CheckSafety ==
    /\ menu.pc = "start"
    /\ LET safe == CheckOutputFileSafety(fs, menu.output) IN
       menu' = [menu EXCEPT !.pc = IF safe THEN "menu" ELSE "exit",
                            !.last = "check",
                            !.result = IF safe THEN "True" ELSE "False"]
    /\ UNCHANGED <<fs, now>>
    /\ UNCHANGED generator

\* a menu choice can be made
AtMenu == menu.pc = "menu" /\ menu.choices < MaxChoices

\* choice 1: the questionnaire runs to its end and saves the answers, or is
\* interrupted and saves nothing
ChooseQuestionnaire ==
    /\ AtMenu
    /\ \/ \E a \in QuestionnaireRuns : fs' = SaveConfig(fs, a)
       \/ UNCHANGED fs
    /\ menu' = Chosen("questionnaire", "None", FALSE)
    /\ now' = now + 1
    /\ UNCHANGED generator

\* choice 2: generate_config(args.output)
ChooseGenerate ==
    /\ AtMenu
    /\ LET r == LauncherGenerate(fs, menu.output, Timestamp(now)) IN
       /\ fs' = r.fs
       /\ menu' = Chosen("generate", IF r.ok THEN "True" ELSE "False", r.ok)
    /\ now' = now + 1
    /\ UNCHANGED generator

\* choice 3: the questionnaire, then generate_config(args.output) if the
\* questionnaire returned a record
ChooseSetup ==
    /\ AtMenu
    /\ \/ \E a \in QuestionnaireRuns :
            LET r == LauncherGenerate(SaveConfig(fs, a), menu.output, Timestamp(now)) IN
            /\ fs' = r.fs
            /\ menu' = Chosen("setup", IF r.ok THEN "True" ELSE "False", r.ok)
       \/ /\ UNCHANGED fs
          /\ menu' = Chosen("setup", "None", FALSE)
    /\ now' = now + 1
    /\ UNCHANGED generator

\* choice 4: view_configuration prints the file and changes nothing
ChooseView ==
    /\ AtMenu
    /\ menu' = Chosen("view", "None", FALSE)
    /\ now' = now + 1
    /\ UNCHANGED fs
    /\ UNCHANGED generator

\* choice 5: install_tpm_and_plugins reads the answers file and works in
\* ~/.tmux/plugins, outside the files of the model; it returns False without
\* an answers file it can read or when use_tpm is off
ChooseInstall ==
    /\ AtMenu
    /\ LET readable == Exists(fs, ConfigJson) /\ fs[ConfigJson].kind = "json"
                       /\ fs[ConfigJson].data.t = "dict"
           enabled == readable /\ "use_tpm" \in DOMAIN fs[ConfigJson].data.d
                      /\ fs[ConfigJson].data.d["use_tpm"] \notin
                            {PyBool(FALSE), PyNone, PyInt(0), PyStr(""), PyList(<<>>)}
       IN \E cloned \in BOOLEAN :
             menu' = Chosen("install", IF enabled /\ cloned THEN "True" ELSE "False", FALSE)
    /\ now' = now + 1
    /\ UNCHANGED fs
    /\ UNCHANGED generator

\* choice 6: clean_files()
ChooseClean ==
    /\ AtMenu
    /\ fs' = CleanFiles(fs)
    /\ menu' = Chosen("clean", "None", FALSE)
    /\ now' = now + 1
    /\ UNCHANGED generator

\* choice 7, and any input that is no choice: text is printed
ChooseHelp ==
    /\ AtMenu
    /\ \E name \in {"help", "invalid"} : menu' = Chosen(name, "None", FALSE)
    /\ now' = now + 1
    /\ UNCHANGED fs
    /\ UNCHANGED generator

\* choice 8, or an interrupt at the menu: the loop is left
ChooseExit ==
    /\ menu.pc = "menu"
    /\ menu' = [menu EXCEPT !.pc = "exit", !.last = "exit", !.result = "None"]
    /\ UNCHANGED <<fs, now>>
    /\ UNCHANGED generator

NextLauncher ==
    \/ CheckSafety
    \/ ChooseQuestionnaire
    \/ ChooseGenerate
    \/ ChooseSetup
    \/ ChooseView
    \/ ChooseInstall
    \/ ChooseClean
    \/ ChooseHelp
    \/ ChooseExit

SpecLauncher == InitLauncher /\ [][NextLauncher]_vars

-----------------------------------------------------------------------------
(* The prompts of the questionnaire (src/tmux_questionnaire.py):            *)
(* _ask_yes_no and _ask_choice, one response at a time.                     *)

\* the largest number of responses typed at one prompt
MaxResponses == 7

\* str.strip(), for the blanks a user types around an answer
RECURSIVE PyStrip(_)
PyStrip(s) ==
    IF s = "" THEN ""
    ELSE IF SubSeq(s, 1, 1) = " " THEN PyStrip(SubSeq(s, 2, Len(s)))
    ELSE IF SubSeq(s, Len(s), Len(s)) = " " THEN PyStrip(SubSeq(s, 1, Len(s) - 1))
    ELSE s

UpperLetters ==
    <<"A", "B", "C", "D", "E", "F", "G", "H", "I", "J", "K", "L", "M",
      "N", "O", "P", "Q", "R", "S", "T", "U", "V", "W", "X", "Y", "Z">>

LowerLetters ==
    <<"a", "b", "c", "d", "e", "f", "g", "h", "i", "j", "k", "l", "m",
      "n", "o", "p", "q", "r", "s", "t", "u", "v", "w", "x", "y", "z">>

\* str.lower() of one character
LowerChar(c) ==
    IF \E n \in 1..26 : UpperLetters[n] = c
    THEN LowerLetters[CHOOSE n \in 1..26 : UpperLetters[n] = c]
    ELSE c

\* str.lower()
RECURSIVE PyLower(_)
PyLower(s) ==
    IF s = "" THEN "" ELSE LowerChar(SubSeq(s, 1, 1)) \o PyLower(SubSeq(s, 2, Len(s)))

DigitChars == <<"0", "1", "2", "3", "4", "5", "6", "7", "8", "9">>

IsDigitChar(c) == \E n \in 1..10 : DigitChars[n] = c

DigitValue(c) == (CHOOSE n \in 1..10 : DigitChars[n] = c) - 1

\* the digits of s read as a number after the value acc; ok is false where
\* int() raises ValueError.  An underscore may stand between two digits.
RECURSIVE ParseDigits(_, _, _)
ParseDigits(s, acc, afterDigit) ==
    IF s = "" THEN [ok |-> afterDigit, value |-> acc]
    ELSE LET c == SubSeq(s, 1, 1)
             rest == SubSeq(s, 2, Len(s))
         IN IF IsDigitChar(c) THEN ParseDigits(rest, 10 * acc + DigitValue(c), TRUE)
            ELSE IF c = "_" /\ afterDigit /\ rest # "" /\ IsDigitChar(SubSeq(rest, 1, 1))
                 THEN ParseDigits(rest, acc, FALSE)
            ELSE [ok |-> FALSE, value |-> 0]

\* int(s) for a stripped string: an optional sign, then digits
PyParseInt(s) ==
    IF s = "" THEN [ok |-> FALSE, value |-> 0]
    ELSE IF SubSeq(s, 1, 1) = "-"
         THEN LET r == ParseDigits(SubSeq(s, 2, Len(s)), 0, FALSE)
              IN [ok |-> r.ok, value |-> 0 - r.value]
    ELSE IF SubSeq(s, 1, 1) = "+" THEN ParseDigits(SubSeq(s, 2, Len(s)), 0, FALSE)
    ELSE ParseDigits(s, 0, FALSE)

\* bool(help_key): a help key that is neither None nor empty
HasHelp(k) == k.t = "str" /\ k.s # ""

\* max_attempts of both prompts
MaxAttempts == 5

\* a prompt that has just been called.  attempt is the local variable of
\* the code; responses, invalid, helps and errors count what has happened:
\* the responses read, those that were no answer, those that showed the help
\* text, and the reads that raised
NewPrompt(kind, choices, default, help) ==
    [pc |-> "called", kind |-> kind, choices |-> choices, default |-> default,
     help |-> help, attempt |-> 0, responses |-> 0, invalid |-> 0, helps |-> 0,
     errors |-> 0, last |-> "", answer |-> PyNone]

\* the prompt p after it has returned v
Returned(p, v) == [p EXCEPT !.pc = "returned", !.answer = v]

\* the prompt p after one more turn of its loop that counted an attempt:
\* _ask_yes_no leaves its loop at max_attempts and returns the default
CountedYesNo(p) ==
    IF p.attempt + 1 < MaxAttempts
    THEN [p EXCEPT !.attempt = @ + 1]
    ELSE Returned([p EXCEPT !.attempt = @ + 1], p.default)

\* one turn of _ask_yes_no that counts the help text as an attempt
AskYesNoStep_HelpCounted(p, response) ==
    LET r == PyLower(PyStrip(response))
        q == [p EXCEPT !.responses = @ + 1, !.last = response]
    IN IF r = "?" /\ HasHelp(p.help) THEN CountedYesNo([q EXCEPT !.helps = @ + 1])
       ELSE IF r = "" THEN Returned(q, p.default)
       ELSE IF r \in {"y", "yes", "1", "true"} THEN Returned(q, PyBool(TRUE))
       ELSE IF r \in {"n", "no", "0", "false"} THEN Returned(q, PyBool(FALSE))
       ELSE CountedYesNo([q EXCEPT !.invalid = @ + 1])

\* one turn of the loop of _ask_yes_no on the response read by input()
AskYesNoStep(p, response) ==
    LET r == PyLower(PyStrip(response))
        q == [p EXCEPT !.responses = @ + 1, !.last = response]
    IN IF r = "?" /\ HasHelp(p.help) THEN [q EXCEPT !.helps = @ + 1]
       ELSE IF r = "" THEN Returned(q, p.default)
       ELSE IF r \in {"y", "yes", "1", "true"} THEN Returned(q, PyBool(TRUE))
       ELSE IF r \in {"n", "no", "0", "false"} THEN Returned(q, PyBool(FALSE))
       ELSE CountedYesNo([q EXCEPT !.invalid = @ + 1])

\* one turn of the loop of _ask_choice on the response read by input();
\* attempt is compared with max_attempts and never changed
AskChoiceStep(p, response) ==
    LET r == PyStrip(response)
        q == [p EXCEPT !.responses = @ + 1, !.last = response]
        n == PyParseInt(r)
    IN IF r = "?" /\ HasHelp(p.help) THEN [q EXCEPT !.helps = @ + 1]
       ELSE IF r = "" /\ p.default # PyNone THEN Returned(q, p.default)
       ELSE IF n.ok /\ 0 <= n.value - 1 /\ n.value - 1 < Len(p.choices)
            THEN Returned(q, p.choices[n.value])
       ELSE [q EXCEPT !.invalid = @ + 1]

\* what a user types at a yes/no prompt
YesNoResponses ==
    {"", "  ", "y", "Y", "yes", " Yes ", "YES", "1", "true", "True",
     "n", "N", "no", "No ", "0", "false", "FALSE", "?", " ? ", "maybe", "2", "yn"}

\* what a user types at a choice prompt
ChoiceResponses ==
    {"", " ", "1", "2", " 2 ", "3", "4", "5", "0", "-1", "+1", "01", "1_0",
     "abc", "1.5", "C-a", "?", "y"}

\* the yes/no prompts: both defaults, without a help key, with an empty one
\* and with the key of a question
YesNoPrompts ==
    {NewPrompt("yes_no", <<>>, PyBool(d), h) :
        d \in BOOLEAN, h \in {PyNone, PyStr(""), PyStr("enable_mouse")}}

\* the choices of the questions prefix_key, status_position, base_index and
\* terminal_mode, each with its default and its help key
ChoiceQuestions ==
    {[choices |-> <<PyStr("C-b"), PyStr("C-a"), PyStr("C-Space"), PyStr("custom")>>,
      default |-> PyStr("C-b"), help |-> PyStr("prefix_key")],
     [choices |-> <<PyStr("bottom"), PyStr("top")>>,
      default |-> PyStr("bottom"), help |-> PyStr("status_position")],
     [choices |-> <<PyInt(0), PyInt(1)>>,
      default |-> PyInt(1), help |-> PyStr("base_index")],
     [choices |-> <<PyStr("emacs"), PyStr("vi")>>,
      default |-> PyStr("vi"), help |-> PyStr("terminal_mode")]}

\* the choice prompts: those of the questions, the same without a default
\* or without a help key, and a prompt without choices
ChoicePrompts ==
    UNION {{NewPrompt("choice", q.choices, d, h) :
                d \in {q.default, PyNone}, h \in {q.help, PyNone}} :
           q \in ChoiceQuestions}
    \cup {NewPrompt("choice", <<>>, PyStr("opt1"), PyNone)}

\* one prompt is called; no generator object and no launcher is involved
InitPrompt ==
    /\ raw = RawOther("NoneType")
    /\ base = NoConfig
    /\ pc = "start"
    /\ config = NoConfig
    /\ err = "none"
    /\ lines = <<>>
    /\ out = <<>>
    /\ calls = 0
    /\ now = 0
    /\ fs = NoFiles
    /\ menu = NoMenu
    /\ prompt \in YesNoPrompts \cup ChoicePrompts

\* the variables a prompt leaves alone
notPrompt == <<base, raw, pc, config, err, lines, out, calls, now, fs, menu>>

\* the code before the loop: _ask_choice returns the default when it has no
\* choices; otherwise the loop is entered with attempt = 0
EnterPrompt ==
    /\ prompt.pc = "called"
    /\ prompt' = IF prompt.kind = "choice" /\ prompt.choices = <<>>
                 THEN Returned(prompt, prompt.default)
                 ELSE [prompt EXCEPT !.pc = "asking"]
    /\ UNCHANGED notPrompt

\* the loop of p is entered once more: attempt < max_attempts
Asking(p) == p.pc = "asking" /\ p.attempt < MaxAttempts /\ p.responses < MaxResponses

\* the user answers a yes/no prompt
RespondYesNo ==
    /\ prompt.kind = "yes_no"
    /\ Asking(prompt)
    /\ \E response \in YesNoResponses : prompt' = AskYesNoStep(prompt, response)
    /\ UNCHANGED notPrompt

\* the user answers a choice prompt
RespondChoice ==
    /\ prompt.kind = "choice"
    /\ Asking(prompt)
    /\ \E response \in ChoiceResponses : prompt' = AskChoiceStep(prompt, response)
    /\ UNCHANGED notPrompt

\* end of input or an interrupt at the prompt: _ask_yes_no raises
\* KeyboardInterrupt, _ask_choice lets the exception through
CancelPrompt ==
    /\ Asking(prompt)
    /\ prompt' = [prompt EXCEPT !.pc = "cancelled"]
    /\ UNCHANGED notPrompt

\* input() raises something else: _ask_yes_no counts an attempt, _ask_choice
\* catches ValueError only and lets the exception through
InputError ==
    /\ Asking(prompt)
    /\ prompt' = IF prompt.kind = "yes_no"
                 THEN CountedYesNo([prompt EXCEPT !.errors = @ + 1])
                 ELSE [prompt EXCEPT !.pc = "failed", !.errors = @ + 1]
    /\ UNCHANGED notPrompt

NextPrompt == EnterPrompt \/ RespondYesNo \/ RespondChoice \/ CancelPrompt \/ InputError

SpecPrompt == InitPrompt /\ [][NextPrompt]_vars

-----------------------------------------------------------------------------
(* The answers of the questionnaire, handed to the generator as the         *)
(* launcher does it: asdict(TmuxConfig) through tmux_config.json.           *)

\* the plugins of the multiselect question, in the order they are listed
SelectablePlugins ==
    <<"tmux-sensible", "tmux-resurrect", "tmux-continuum", "tmux-copycat",
      "tmux-yank", "tmux-sidebar", "tmux-battery", "tmux-cpu", "tmux-net-speed">>

\* the selections tried at the multiselect question: none, each plugin
\* alone, each two neighbours of the list, and all plugins
PluginSelections ==
    {<<>>}
    \cup {<<PyStr(SelectablePlugins[n])>> : n \in 1..Len(SelectablePlugins)}
    \cup {<<PyStr(SelectablePlugins[n]), PyStr(SelectablePlugins[n + 1])>> :
             n \in 1..(Len(SelectablePlugins) - 1)}
    \cup {[n \in 1..Len(SelectablePlugins) |-> PyStr(SelectablePlugins[n])]}

\* the least and the greatest history_limit the number question accepts
HistoryMin == 1000
HistoryMax == 50000

\* for each field the generator validates, the answers the questionnaire
\* can store in it: every choice offered, the selections above, and
\* history limits at both ends of and inside the range of the prompt
OfferedAnswers ==
    [prefix_key |-> {PyStr("C-b"), PyStr("C-a"), PyStr("C-Space"), PyStr("custom")},
     color_scheme |-> {PyStr("default"), PyStr("dracula"), PyStr("nord"),
                       PyStr("gruvbox"), PyStr("solarized"), PyStr("catppuccin"),
                       PyStr("lfgm"), PyStr("custom")},
     status_position |-> {PyStr("bottom"), PyStr("top")},
     base_index |-> {PyInt(0), PyInt(1)},
     terminal_mode |-> {PyStr("emacs"), PyStr("vi")},
     plugins |-> {PyList(q) : q \in PluginSelections},
     history_limit |-> {PyInt(HistoryMin), PyInt(HistoryMin + 1), PyInt(5000),
                        PyInt(HistoryMax - 1), PyInt(HistoryMax)}]

\* the fields of OfferedAnswers
AnsweredFields == DOMAIN OfferedAnswers

\* the records a questionnaire leaves in which one of these fields holds an
\* offered answer and every other field its default
AnswerInputs ==
    UNION {{RawDict([TmuxConfig EXCEPT ![k] = v]) : v \in OfferedAnswers[k]} :
           k \in AnsweredFields}

InitAnswers ==
    /\ raw \in AnswerInputs
    /\ base = raw.d
    /\ pc = "start"
    /\ config = NoConfig
    /\ err = "none"
    /\ lines = <<>>
    /\ out = <<>>
    /\ calls = 0
    /\ now = 0
    /\ fs = NoFiles
    /\ menu = NoMenu
    /\ prompt = NoPrompt

\* construction and rendering from the answers as they were saved
NextAnswers == Construct \/ Generate

SpecAnswers == InitAnswers /\ [][NextAnswers]_vars

-----------------------------------------------------------------------------
(* Vocabulary of the properties *)

\* the generator has been constructed from a mapping or from None
Sanitized == pc = "ready"

\* the raw input is a mapping that holds key k
HasInput(k) == raw.t = "dict" /\ k \in DOMAIN raw.d

\* d without its entry for k
DropKey(d, k) == [x \in DOMAIN d \ {k} |-> d[x]]

\* line is one of the lines of text
Contains(text, line) == \E n \in 1..Len(text) : text[n] = line

\* the overlay rejects the entry k |-> v: k names no field, or v is not of
\* exactly the field's declared type
RejectedEntry(k, v) == k \notin KnownKeys \/ v.t # Defaults[k].t

-----------------------------------------------------------------------------
(* C1 - C10: the sanitizer *)

\* C1: constructing the generator from a raw input that is neither None nor a
\* mapping fails with TypeError and leaves no sanitized record, not even a
\* partial one; no other input fails.
C1_NonMappingRejected ==
    pc # "start" =>
        IF raw.t \in {"NoneType", "dict"}
        THEN pc = "ready" /\ err = "none"
        ELSE pc = "failed" /\ err = "TypeError" /\ DOMAIN config = {}

C1_Witness == pc = "failed" /\ raw.t = "list" /\ err = "TypeError"

\* C2: for None and for the empty mapping the sanitized record is the full
\* default record, and every text rendered from it holds the lines
\* `set -g prefix C-b` and `set -g history-limit 5000`.
C2_DefaultsForEmptyInput ==
    (Sanitized /\ (raw.t = "NoneType" \/ DOMAIN raw.d = {})) =>
        /\ DOMAIN config = KnownKeys
        /\ \A k \in KnownKeys : config[k] = Defaults[k]
        /\ config.prefix_key = PyStr("C-b")
        /\ config.history_limit = PyInt(5000)
        /\ calls > 0 =>
            /\ err = "none"
            /\ Contains(out, "set -g prefix C-b")
            /\ Contains(out, "set -g history-limit 5000")

C2_Witness ==
    /\ raw.t = "NoneType"
    /\ calls > 0
    /\ Contains(out, "set -g prefix C-b")
    /\ Contains(out, "set -g history-limit 5000")

\* C3 (as claimed): every known field whose raw value is not of exactly the
\* field's declared type holds its documented default in the sanitized record.
C3_WrongTypeGetsDefault ==
    Sanitized =>
        \A k \in KnownKeys :
            (HasInput(k) /\ raw.d[k].t # Defaults[k].t) => config[k] = Defaults[k]

\* C4: for every mapping input sanitize completes without error; the record's
\* key set is exactly the set of known fields, so no unknown key is copied;
\* and an entry the overlay rejects (unknown key or wrong type) leaves every
\* other field as it is without that entry.
C4_KeySetFixed ==
    (pc # "start" /\ raw.t = "dict") =>
        /\ pc = "ready"
        /\ err = "none"
        /\ DOMAIN config = KnownKeys
        /\ \A k \in DOMAIN raw.d :
              RejectedEntry(k, raw.d[k]) =>
                  LET without == SanitizeConfig(DropKey(raw.d, k)) IN
                  \A f \in KnownKeys \ {k} : config[f] = without[f]

C4_Witness ==
    /\ Sanitized
    /\ DOMAIN config = KnownKeys
    /\ \E k \in DOMAIN raw.d : k \notin KnownKeys
    /\ \E k \in DOMAIN raw.d \cap KnownKeys : raw.d[k].t # Defaults[k].t
    /\ \E k \in DOMAIN raw.d \cap KnownKeys : config[k] = raw.d[k] /\ config[k] # Defaults[k]

\* C5: after sanitize history_limit is an integer in 100..1000000; an integer
\* input inside the range, boundaries included, is kept, and every other
\* input (below 100, above 1000000, or no integer at all) yields 5000.
C5_HistoryLimitRange ==
    Sanitized =>
        /\ config.history_limit.t = "int"
        /\ config.history_limit.i >= 100
        /\ config.history_limit.i <= 1000000
        /\ IF /\ HasInput("history_limit")
              /\ raw.d.history_limit.t = "int"
              /\ raw.d.history_limit.i >= 100
              /\ raw.d.history_limit.i <= 1000000
           THEN config.history_limit = raw.d.history_limit
           ELSE config.history_limit = PyInt(5000)

C5_Witness ==
    /\ Sanitized
    /\ HasInput("history_limit")
    /\ raw.d.history_limit = PyInt(100)
    /\ config.history_limit = PyInt(100)

\* C6 (as claimed): after sanitize base_index is the integer 0 or the integer
\* 1; an input of 0 or 1 is kept, and any other input value resets both
\* base_index and pane_base_index to 1.
C6_BaseIndexZeroOrOne ==
    Sanitized =>
        /\ config.base_index \in {PyInt(0), PyInt(1)}
        /\ HasInput("base_index") =>
              IF raw.d.base_index \in {PyInt(0), PyInt(1)}
              THEN config.base_index = raw.d.base_index
              ELSE config.base_index = PyInt(1) /\ config.pane_base_index = PyInt(1)

\* C7 (as claimed): in every sanitized record pane_base_index equals
\* base_index.
C7_PaneMirrorsBase == Sanitized => config.pane_base_index = config.base_index

\* the legal values of the enum-like fields, and their defaults, as documented
LegalColorSchemes ==
    {"default", "dracula", "nord", "gruvbox", "solarized", "catppuccin", "lfgm"}

EnumLegal(k) ==
    CASE k = "color_scheme" -> LegalColorSchemes
      [] k = "terminal_mode" -> {"emacs", "vi"}
      [] k = "status_position" -> {"top", "bottom"}

EnumDefault(k) ==
    CASE k = "color_scheme" -> "default"
      [] k = "terminal_mode" -> "emacs"
      [] k = "status_position" -> "bottom"

\* C8: after sanitize color_scheme, terminal_mode and status_position are
\* strings of their legal sets; a legal input is kept, and any other string
\* resets that field to its default and changes no other field.
C8_EnumFieldsLegal ==
    Sanitized =>
        \A k \in {"color_scheme", "terminal_mode", "status_position"} :
            /\ config[k].t = "str"
            /\ config[k].s \in EnumLegal(k)
            /\ (HasInput(k) /\ raw.d[k].t = "str") =>
                  IF raw.d[k].s \in EnumLegal(k)
                  THEN config[k] = raw.d[k]
                  ELSE /\ config[k] = PyStr(EnumDefault(k))
                       /\ LET without == SanitizeConfig(DropKey(raw.d, k)) IN
                          \A f \in KnownKeys \ {k} : config[f] = without[f]

C8_Witness ==
    /\ Sanitized
    /\ HasInput("terminal_mode") /\ raw.d.terminal_mode = PyStr("invalid")
    /\ config.terminal_mode = PyStr("emacs")
    /\ HasInput("color_scheme") /\ raw.d.color_scheme = PyStr("lfgm")
    /\ config.color_scheme = PyStr("lfgm")

\* C9 (as claimed): after sanitize plugins is a list whose every element is a
\* string; a non-list input yields the empty list.
C9_PluginsAllStrings ==
    Sanitized =>
        /\ config.plugins.t = "list"
        /\ \A n \in 1..Len(config.plugins.l) : config.plugins.l[n].t = "str"
        /\ (HasInput("plugins") /\ raw.d.plugins.t # "list") => config.plugins = PyList(<<>>)

\* C10: sanitize is idempotent: the sanitized record, fed back in as a raw
\* mapping, comes back field by field the same.
C10_Idempotent ==
    Sanitized =>
        LET again == SanitizeConfig(config) IN
        DOMAIN again = KnownKeys /\ \A k \in KnownKeys : again[k] = config[k]

C10_Witness ==
    /\ Sanitized
    /\ HasInput("base_index") /\ raw.d.base_index = PyInt(99)
    /\ HasInput("history_limit") /\ raw.d.history_limit = PyInt(-1000)
    /\ config # Overlay(raw.d)
    /\ SanitizeConfig(config) = config

-----------------------------------------------------------------------------
(* Vocabulary of the rendering properties *)

\* line.startswith(p), line.endswith(p) and `p in line`
StartsWith(line, p) == Len(line) >= Len(p) /\ SubSeq(line, 1, Len(p)) = p

EndsWith(line, p) ==
    Len(line) >= Len(p) /\ SubSeq(line, Len(line) - Len(p) + 1, Len(line)) = p

HasSubstring(line, p) ==
    \E n \in 1..(Len(line) - Len(p) + 1) : SubSeq(line, n, n + Len(p) - 1) = p

\* a line that is neither blank nor a comment
IsDirective(line) == line # "" /\ ~StartsWith(line, "#")

\* the last generate_config call returned a text, which out holds
Rendered == Sanitized /\ calls > 0 /\ err = "none"

\* line occurs in text, and a later line of text is `later`
FollowedBy(text, line, later) ==
    \E n \in 1..Len(text) : \E m \in (n + 1)..Len(text) :
        text[n] = line /\ text[m] = later

\* the lines of text after position n, up to the next banner rule or the end
SectionBody(text, n) ==
    LET stop == CHOOSE m \in (n + 1)..(Len(text) + 1) :
                    /\ m = Len(text) + 1 \/ text[m] = Rule
                    /\ \A j \in (n + 1)..(m - 1) : text[j] # Rule
    IN SubSeq(text, n + 1, stop - 1)

\* the directives among the lines of text, in order
Directives(text) == SelectSeq(text, IsDirective)

-----------------------------------------------------------------------------
(* C11 - C20: the renderer *)

\* C11 (as claimed): rendering is total over sanitizer output: every
\* generate_config call on a generator constructed from a mapping returns a
\* text and raises nothing.
C11_RenderTotal == (Sanitized /\ calls > 0) => (err = "none" /\ out # <<>>)

\* the text with the time of its "Generated on" line removed
WithoutTimestamp(text) ==
    [n \in DOMAIN text |->
        IF StartsWith(text[n], "# Generated on: ") THEN "# Generated on: " ELSE text[n]]

\* C12 (as claimed): every generate_config call on one generator returns, the
\* timestamp line ignored, the text the first call returned: a single
\* rendering of the record, with no line of an earlier call carried over.
C12_RenderRepeatable ==
    Rendered =>
        WithoutTimestamp(out) = WithoutTimestamp(GenerateConfig(config, Timestamp(0)).lines)

\* the title lines of the section banners, in the order of generate_config
BannerTitles ==
    <<"# Ultimate TMUX Configuration",
      "# CORE SETTINGS",
      "# APPEARANCE & STATUS BAR",
      "# BEHAVIOR SETTINGS",
      "# TERMINAL INTEGRATION",
      "# VIM INTEGRATION",
      "# KEY BINDINGS",
      "# PLUGIN CONFIGURATION",
      "# ADVANCED FEATURES",
      "# END OF CONFIGURATION">>

IsBannerTitle(line) == \E n \in 1..Len(BannerTitles) : BannerTitles[n] = line

BannerRank(line) == CHOOSE n \in 1..Len(BannerTitles) : BannerTitles[n] = line

\* the banners every rendering holds
AlwaysBanners ==
    {"# Ultimate TMUX Configuration", "# CORE SETTINGS", "# APPEARANCE & STATUS BAR",
     "# BEHAVIOR SETTINGS", "# TERMINAL INTEGRATION", "# KEY BINDINGS",
     "# END OF CONFIGURATION"}

\* C13 (as claimed): in every returned text the banners that are present
\* occur in the order of BannerTitles, each at most once, and the header,
\* core, appearance, behavior, terminal, key-binding and footer banners are
\* all present.
C13_BannersInOrder ==
    Rendered =>
        LET titles == SelectSeq(out, IsBannerTitle) IN
        /\ \A m, n \in 1..Len(titles) :
              m < n => BannerRank(titles[m]) < BannerRank(titles[n])
        /\ \A b \in AlwaysBanners : Contains(out, b)

\* the bodies of the sections of text whose banner title is `title`
Sections(text, title) ==
    {SectionBody(text, n + 1) : n \in {k \in 1..Len(text) : text[k] = title}}

\* C14: the core section of every returned text holds `set -g prefix P` for
\* the resolved prefix P (custom_prefix when prefix_key is "custom", else
\* prefix_key); it holds `unbind C-b`, followed later by `bind P send-prefix`,
\* exactly when P is not "C-b", and no send-prefix binding otherwise; and it
\* holds `set -g mouse on` exactly when enable_mouse is true.
C14_CoreDirectives ==
    Rendered =>
        LET P == IF config.prefix_key.s = "custom"
                 THEN config.custom_prefix.s ELSE config.prefix_key.s
            cores == Sections(out, "# CORE SETTINGS")
        IN
        /\ cores # {}
        /\ \A core \in cores :
              /\ Contains(core, "set -g prefix " \o P)
              /\ Contains(core, "unbind C-b") <=> P # "C-b"
              /\ FollowedBy(core, "unbind C-b", "bind " \o P \o " send-prefix") <=> P # "C-b"
              /\ (\E n \in 1..Len(core) : EndsWith(core[n], " send-prefix")) <=> P # "C-b"
              /\ Contains(core, "set -g mouse on") <=> config.enable_mouse.b

C14_Witness ==
    /\ Rendered
    /\ config.prefix_key = PyStr("C-a")
    /\ config.enable_mouse = PyBool(TRUE)
    /\ \E core \in Sections(out, "# CORE SETTINGS") :
          /\ Contains(core, "set -g prefix C-a")
          /\ FollowedBy(core, "unbind C-b", "bind C-a send-prefix")
          /\ Contains(core, "set -g mouse on")

\* C15 (as claimed): with prefix_key left at "C-b" no line of a returned text
\* that is not a comment begins with `unbind`.
C15_NoUnbindLine ==
    (Rendered /\ config.prefix_key = PyStr("C-b")) =>
        \A n \in 1..Len(out) : ~(IsDirective(out[n]) /\ StartsWith(out[n], "unbind"))

\* C15 (amended): with prefix_key left at "C-b" a returned text does not hold
\* `unbind C-b`: its only lines that begin with `unbind` are the two of the
\* key-binding section that free the default split keys, `unbind '"'` and
\* `unbind %`.
C15_NoUnbindOfPrefix ==
    (Rendered /\ config.prefix_key = PyStr("C-b")) =>
        \A n \in 1..Len(out) :
            StartsWith(out[n], "unbind") => out[n] \in {"unbind '\"'", "unbind %"}

C15_Witness ==
    /\ Rendered
    /\ config.prefix_key = PyStr("C-b")
    /\ config.vim_navigation = PyBool(TRUE)
    /\ config.use_tpm = PyBool(TRUE)
    /\ Contains(out, "unbind %")
    /\ ~Contains(out, "unbind C-b")

\* the distinct lines of text
LinesOf(text) == {text[n] : n \in 1..Len(text)}

C17_TpmWheneverEnabled ==
    (Rendered /\ config.use_tpm.b) =>
        /\ Contains(out, "set -g @plugin 'tmux-plugins/tpm'")
        /\ Contains(out, "run '~/.tmux/plugins/tpm/tpm'")

\* the plugin name registry: the names a declaration is written for
RegisteredPlugins ==
    {"tmux-sensible", "tmux-resurrect", "tmux-continuum", "tmux-copycat", "tmux-yank",
     "tmux-sidebar", "tmux-battery", "tmux-cpu", "tmux-net-speed"}

\* the plugin list of the record holds the name
Listed(name) == \E n \in 1..Len(config.plugins.l) : config.plugins.l[n] = PyStr(name)

RECURSIVE DeclarationsFor(_)
\* one declaration per registered entry of the list q, in list order
DeclarationsFor(q) ==
    IF q = <<>> THEN <<>>
    ELSE (IF Head(q).t = "str" /\ Head(q).s \in RegisteredPlugins
          THEN <<"set -g @plugin 'tmux-plugins/" \o Head(q).s \o "'">>
          ELSE <<>>)
         \o DeclarationsFor(Tail(q))

\* C18: the directives of every plugin section of a returned text are, in this
\* order: the TPM bootstrap; one declaration per plugin-list entry that is in
\* the registry, in list order, and nothing for any other entry; the two
\* continuum directives exactly when tmux-resurrect and tmux-continuum are
\* both listed; the yank directive exactly when tmux-yank is listed; and the
\* TPM run line last.  A text rendered with use_tpm true from a list that is
\* not empty holds such a section.
C18_PluginDirectiveOrder ==
    Rendered =>
        LET sections == Sections(out, "# PLUGIN CONFIGURATION") IN
        /\ (config.use_tpm.b /\ config.plugins.l # <<>>) => sections # {}
        /\ \A body \in sections :
              Directives(body) =
                  <<"set -g @plugin 'tmux-plugins/tpm'">>
                  \o DeclarationsFor(config.plugins.l)
                  \o (IF Listed("tmux-resurrect") /\ Listed("tmux-continuum")
                      THEN <<"set -g @continuum-restore 'on'",
                             "set -g @continuum-save-interval '15'">>
                      ELSE <<>>)
                  \o (IF Listed("tmux-yank")
                      THEN <<"set -g @yank_selection_mouse 'clipboard'">>
                      ELSE <<>>)
                  \o <<"run '~/.tmux/plugins/tpm/tpm'">>

C18_Witness ==
    /\ Rendered
    /\ config.plugins = PyList(<<PyStr("tmux-sensible"), PyStr("unknown-plugin")>>)
    /\ \E body \in Sections(out, "# PLUGIN CONFIGURATION") :
          Directives(body) = <<"set -g @plugin 'tmux-plugins/tpm'",
                               "set -g @plugin 'tmux-plugins/tmux-sensible'",
                               "run '~/.tmux/plugins/tpm/tpm'">>

\* the command words a directive may begin with
Verbs == {"set", "bind", "unbind", "run"}

SetsOption(line, option) == StartsWith(line, "set -g " \o option \o " ")

\* the lines of text from position n up to the next blank line or the end
Paragraph(text, n) ==
    LET stop == CHOOSE m \in n..(Len(text) + 1) :
                    /\ m = Len(text) + 1 \/ text[m] = ""
                    /\ \A j \in n..(m - 1) : text[j] # ""
    IN SubSeq(text, n, stop - 1)

\* the five style options every scheme sets, in the order they are written,
\* and the further ones named for lfgm
FiveStyles ==
    <<"status-bg", "status-fg", "window-status-current-style", "pane-border-style",
      "pane-active-border-style">>

LfgmStyles == {"status-left-style", "status-right-style", "message-style"}

\* C20: a returned text holds a color-scheme block (a `# <Scheme> Color
\* Scheme` heading, a blank line, and the directives up to the next blank
\* line) exactly when color_scheme is not "default", and with "default" no
\* line sets a style option.  The block of lfgm holds `#002d72` and `#ff671f`
\* and sets all five common style options and status-left-style,
\* status-right-style and message-style; the block of every other scheme is
\* exactly the five common directives, in order, and the text sets none of
\* the three lfgm options.
C20_ColorSchemeBlock ==
    Rendered =>
        LET scheme == config.color_scheme.s
            heads == {n \in 1..Len(out) :
                        StartsWith(out[n], "# ") /\ EndsWith(out[n], " Color Scheme")}
            five == {FiveStyles[k] : k \in 1..Len(FiveStyles)}
        IN
        /\ heads # {} <=> scheme # "default"
        /\ scheme = "default" =>
              \A line \in LinesOf(out) : \A option \in five \cup LfgmStyles :
                  ~SetsOption(line, option)
        /\ scheme # "lfgm" =>
              \A line \in LinesOf(out) : \A option \in LfgmStyles :
                  ~SetsOption(line, option)
        /\ \A n \in heads :
              LET block == Paragraph(out, n + 2) IN
              /\ out[n + 1] = ""
              /\ IF scheme = "lfgm"
                 THEN /\ \A option \in five \cup LfgmStyles :
                            \E k \in 1..Len(block) : SetsOption(block[k], option)
                      /\ \E k \in 1..Len(block) : HasSubstring(block[k], "#002d72")
                      /\ \E k \in 1..Len(block) : HasSubstring(block[k], "#ff671f")
                 ELSE /\ Len(block) = Len(FiveStyles)
                      /\ \A k \in 1..Len(block) : SetsOption(block[k], FiveStyles[k])

C20_Witness ==
    /\ Rendered
    /\ config.color_scheme = PyStr("lfgm")
    /\ Contains(out, "# Lfgm Color Scheme")
    /\ Contains(out, "set -g status-bg '#002d72'")
    /\ Contains(out, "set -g message-style 'bg=#ff671f,fg=#ffffff'")

-----------------------------------------------------------------------------
(* C21 - C23: the conditional parts of the sections *)

\* the status-left and status-right values the flags of the record call for
StatusLeft == IF config.show_session_name.b THEN "#S" ELSE ""

StatusRight ==
    JoinBar((IF config.show_hostname.b THEN <<"#H">> ELSE <<>>)
            \o (IF config.show_date.b THEN <<"%Y-%m-%d">> ELSE <<>>)
            \o (IF config.show_time.b THEN <<"%H:%M">> ELSE <<>>))

\* C21: in every appearance section of a returned text the status-left
\* directive holds `#S` exactly when show_session_name is true and the
\* status-right directive holds `#H`, `%Y-%m-%d`, `%H:%M`, in that order and
\* joined by ` | `, each exactly when its flag is true; both directives (and
\* the two length directives) are there when at least one of the four flags
\* is true, and none of them when all four are false.
C21_StatusBarSegments ==
    Rendered =>
        LET sections == Sections(out, "# APPEARANCE & STATUS BAR")
            any == \/ config.show_session_name.b \/ config.show_hostname.b
                   \/ config.show_date.b \/ config.show_time.b
        IN
        /\ sections # {}
        /\ \A body \in sections :
              IF any
              THEN /\ Contains(body, "set -g status-left '[" \o StatusLeft \o "] '")
                   /\ Contains(body, "set -g status-right ' " \o StatusRight \o "'")
                   /\ \A n \in 1..Len(body) :
                         /\ SetsOption(body[n], "status-left") =>
                               body[n] = "set -g status-left '[" \o StatusLeft \o "] '"
                         /\ SetsOption(body[n], "status-right") =>
                               body[n] = "set -g status-right ' " \o StatusRight \o "'"
              ELSE \A n \in 1..Len(body) :
                      \A option \in {"status-left", "status-right", "status-left-length",
                                     "status-right-length"} :
                          ~SetsOption(body[n], option)

C21_Witness ==
    /\ Rendered
    /\ config.show_session_name = PyBool(FALSE)
    /\ config.show_hostname = PyBool(TRUE)
    /\ config.show_date = PyBool(FALSE)
    /\ config.show_time = PyBool(TRUE)
    /\ Contains(out, "set -g status-left '[] '")
    /\ Contains(out, "set -g status-right ' #H | %H:%M'")

\* the case of C21 in which no flag is set is reached
C21_WitnessNoFlag ==
    /\ Rendered
    /\ ~config.show_session_name.b /\ ~config.show_hostname.b
    /\ ~config.show_date.b /\ ~config.show_time.b
    /\ Contains(out, "# APPEARANCE & STATUS BAR")

\* some line of text begins with p
SomeLineStarts(text, p) == \E n \in 1..Len(text) : StartsWith(text[n], p)

\* C22: every behavior section of a returned text holds `set -g
\* history-limit N` for the history_limit N of the record; holds the pair
\* `set -g base-index ...`, `setw -g pane-base-index ...` exactly when
\* base_index is not 0; holds `set-option -g allow-rename off` exactly when
\* automatic_rename is false; and holds `set -g renumber-windows on` exactly
\* when renumber_windows is true.
C22_BehaviorDirectives ==
    Rendered =>
        LET sections == Sections(out, "# BEHAVIOR SETTINGS") IN
        /\ sections # {}
        /\ \A body \in sections :
              /\ Contains(body, "set -g history-limit " \o IntToStr(config.history_limit.i))
              /\ \A n \in 1..Len(body) :
                    StartsWith(body[n], "set -g history-limit") =>
                        body[n] = "set -g history-limit " \o IntToStr(config.history_limit.i)
              /\ SomeLineStarts(body, "set -g base-index ") <=> config.base_index.i # 0
              /\ SomeLineStarts(body, "setw -g pane-base-index ") <=> config.base_index.i # 0
              /\ Contains(body, "set-option -g allow-rename off") <=> ~config.automatic_rename.b
              /\ SomeLineStarts(body, "set-option -g allow-rename") <=> ~config.automatic_rename.b
              /\ Contains(body, "set -g renumber-windows on") <=> config.renumber_windows.b
              /\ SomeLineStarts(body, "set -g renumber-windows") <=> config.renumber_windows.b

C22_Witness ==
    /\ Rendered
    /\ config.base_index = PyInt(0)
    /\ config.automatic_rename = PyBool(TRUE)
    /\ config.renumber_windows = PyBool(FALSE)
    /\ config.history_limit = PyInt(1000000)
    /\ Contains(out, "set -g history-limit 1000000")
    /\ ~SomeLineStarts(out, "set -g base-index")
    /\ ~Contains(out, "set-option -g allow-rename off")

\* the bindings of the two optional sections
NavigationBindings ==
    <<"bind h select-pane -L", "bind j select-pane -D", "bind k select-pane -U",
      "bind l select-pane -R",
      "bind -r H resize-pane -L 5", "bind -r J resize-pane -D 5",
      "bind -r K resize-pane -U 5", "bind -r L resize-pane -R 5">>

CopyModeBindings ==
    <<"bind P paste-buffer",
      "bind-key -T copy-mode-vi v send-keys -X begin-selection",
      "bind-key -T copy-mode-vi y send-keys -X copy-selection",
      "bind-key -T copy-mode-vi r send-keys -X rectangle-toggle">>

\* the logging bindings are those on the keys H and h
IsLoggingPair(q) ==
    /\ Len(q) = 2
    /\ StartsWith(q[1], "bind-key H pipe-pane ")
    /\ StartsWith(q[2], "bind-key h pipe-pane ")

\* the clipboard bindings are those on the keys C-c and C-v
IsClipboardPair(q) ==
    /\ Len(q) = 2
    /\ StartsWith(q[1], "bind C-c run ")
    /\ StartsWith(q[2], "bind C-v run ")

\* C23: a returned text holds the VIM INTEGRATION banner exactly when
\* vim_navigation or vim_copy_mode is true, and the directives of that section
\* are the eight navigation bindings (when vim_navigation is true) followed
\* by the four copy-mode bindings (when vim_copy_mode is true) and nothing
\* else; it holds the ADVANCED FEATURES banner exactly when enable_copy_paste
\* or enable_logging is true, and the directives of that section are the two
\* clipboard bindings (when enable_copy_paste is true) followed by the two
\* logging bindings on H and h (when enable_logging is true) and nothing else.
C23_OptionalSections ==
    Rendered =>
        LET vim == Sections(out, "# VIM INTEGRATION")
            advanced == Sections(out, "# ADVANCED FEATURES")
            nav == config.vim_navigation.b
            copy == config.vim_copy_mode.b
            paste == config.enable_copy_paste.b
            logging == config.enable_logging.b
        IN
        /\ vim # {} <=> (nav \/ copy)
        /\ \A body \in vim :
              Directives(body) = (IF nav THEN NavigationBindings ELSE <<>>)
                                 \o (IF copy THEN CopyModeBindings ELSE <<>>)
        /\ advanced # {} <=> (paste \/ logging)
        /\ \A body \in advanced :
              LET d == Directives(body)
                  k == IF paste THEN 2 ELSE 0
              IN
              /\ Len(d) = k + (IF logging THEN 2 ELSE 0)
              /\ paste => IsClipboardPair(SubSeq(d, 1, 2))
              /\ logging => IsLoggingPair(SubSeq(d, k + 1, k + 2))

C23_Witness ==
    /\ Rendered
    /\ ~config.vim_navigation.b /\ config.vim_copy_mode.b
    /\ config.enable_logging.b /\ ~config.enable_copy_paste.b
    /\ \E body \in Sections(out, "# VIM INTEGRATION") : Directives(body) = CopyModeBindings
    /\ \E body \in Sections(out, "# ADVANCED FEATURES") : IsLoggingPair(Directives(body))

-----------------------------------------------------------------------------
(* C25, C28, C29: the text as a whole *)

\* C25 (as claimed): in a returned text no directive follows the TPM
\* initialization line `run '~/.tmux/plugins/tpm/tpm'`.
C25_TpmRunAtBottom ==
    Rendered =>
        \A n \in 1..Len(out) :
            out[n] = "run '~/.tmux/plugins/tpm/tpm'" =>
                \A m \in (n + 1)..Len(out) : ~IsDirective(out[m])

RECURSIVE FirstWord(_)
\* the characters of str before its first space
FirstWord(str) ==
    IF str = "" \/ Head(str) = " " THEN "" ELSE Head(str) \o FirstWord(Tail(str))

RECURSIVE AfterWord(_)
\* what follows the first space of str
AfterWord(str) ==
    IF str = "" THEN ""
    ELSE IF Head(str) = " " THEN Tail(str)
    ELSE AfterWord(Tail(str))

\* the line is a bind or bind-key directive on the prefix key table: one
\* without -n (root table) and without -T (a named table)
BindsPrefixKey(line) ==
    /\ FirstWord(line) \in {"bind", "bind-key"}
    /\ FirstWord(AfterWord(line)) \notin {"-n", "-T"}

\* the key such a directive binds; -r (repeat) stands before the key
BoundKey(line) ==
    LET rest == AfterWord(line) IN
    IF FirstWord(rest) = "-r" THEN FirstWord(AfterWord(rest)) ELSE FirstWord(rest)

\* C28 (as claimed): in a returned text the keys bound on the prefix key
\* table are pairwise distinct, case-sensitively: no two bind directives name
\* the same key.
C28_PrefixKeysDistinct ==
    Rendered =>
        \A m, n \in 1..Len(out) :
            (m < n /\ BindsPrefixKey(out[m]) /\ BindsPrefixKey(out[n])) =>
                BoundKey(out[m]) # BoundKey(out[n])

\* C29 (as claimed): the `set -g prefix` directive of a returned text names a
\* key that is not empty, also when prefix_key is "custom": no line is
\* `set -g prefix` with nothing after it, and no line is `bind  send-prefix`
\* with an empty key.
C29_PrefixKeyNotEmpty ==
    Rendered =>
        \A n \in 1..Len(out) :
            /\ StartsWith(out[n], "set -g prefix") =>
                  FirstWord(AfterWord(AfterWord(AfterWord(out[n])))) # ""
            /\ (FirstWord(out[n]) = "bind" /\ EndsWith(out[n], " send-prefix")) =>
                  BoundKey(out[n]) # ""

-----------------------------------------------------------------------------
(* C24: the launcher and the file at its output path *)

\* the step is a menu choice that called generate_config(args.output)
GenerationStep ==
    /\ menu'.choices = menu.choices + 1
    /\ menu'.last \in {"generate", "setup"}
    /\ menu'.result # "None"

\* the step is the safety check of main() and it refuses what it must: a
\* path that exists, a directory that is missing or cannot be written to
SafetyCheckRefuses ==
    (/\ menu.pc = "start"
     /\ menu'.last = "check"
     /\ \/ Exists(fs, menu.output)
        \/ (DirName(menu.output) # "" /\ DirName(menu.output) \notin ExistingDirs)
        \/ (DirName(menu.output) # "" /\ DirName(menu.output) \notin WritableDirs))
    => menu'.result = "False"

\* a generation to a path that holds a file returns False and writes nothing
ExistingFileRefused ==
    (GenerationStep /\ Exists(fs, menu.output))
    => (menu'.result = "False" /\ fs'[menu.output] = fs[menu.output])

-----------------------------------------------------------------------------
(* C26, C27: the prompts *)

\* the last response as _ask_yes_no compares it
LastYesNo == PyLower(PyStrip(prompt.last))

\* the last response asked for the help text of a prompt that has one
LastWasHelp == PyStrip(prompt.last) = "?" /\ HasHelp(prompt.help)

\* the last response is none of the answers of a yes/no prompt
LastInvalidYesNo ==
    /\ ~LastWasHelp
    /\ LastYesNo \notin {"", "y", "yes", "1", "true", "n", "no", "0", "false"}

\* C26: at a yes/no prompt that was not cancelled, an empty response returns
\* the default, y/yes/1/true in any case returns True, n/no/0/false returns
\* False, `?` with a help key shows the help and counts no attempt, and the
\* fifth invalid response returns the default: the prompt goes on asking
\* only after a help request or an invalid response, and never reads a sixth
\* invalid response.
C26_YesNoResolves ==
    (prompt.kind = "yes_no" /\ prompt.responses > 0 /\ prompt.pc # "cancelled")
    => /\ prompt.invalid <= MaxAttempts
       /\ prompt.attempt = prompt.invalid + prompt.errors
       /\ prompt.responses = prompt.invalid + prompt.helps
                             + (IF prompt.pc = "returned" /\ ~LastInvalidYesNo
                                   /\ prompt.errors + prompt.invalid < MaxAttempts
                                THEN 1 ELSE 0)
       /\ prompt.pc = "asking"
          => (LastWasHelp \/ LastInvalidYesNo) /\ prompt.attempt < MaxAttempts
       /\ prompt.pc = "returned"
          => \/ /\ ~LastWasHelp
                /\ LastYesNo = ""
                /\ prompt.answer = prompt.default
             \/ /\ LastYesNo \in {"y", "yes", "1", "true"}
                /\ prompt.answer = PyBool(TRUE)
             \/ /\ LastYesNo \in {"n", "no", "0", "false"}
                /\ prompt.answer = PyBool(FALSE)
             \/ /\ prompt.attempt = MaxAttempts
                /\ prompt.answer = prompt.default

\* five invalid responses with a help request among them were read, and the
\* prompt returned its default, True
C26_Witness ==
    /\ prompt.kind = "yes_no"
    /\ prompt.pc = "returned"
    /\ prompt.invalid = MaxAttempts
    /\ prompt.helps >= 1
    /\ prompt.errors = 0
    /\ prompt.default = PyBool(TRUE)
    /\ prompt.answer = PyBool(TRUE)

\* C27 (as claimed): a choice prompt that has read 5 invalid responses has
\* stopped prompting.
C27_ChoiceBounded ==
    (prompt.kind = "choice" /\ prompt.invalid >= MaxAttempts) => prompt.pc # "asking"

-----------------------------------------------------------------------------
(* C30: the answers of the questionnaire and the sanitizer *)

\* C30 (as claimed): a generator constructed from the answers of a
\* questionnaire holds, in each of the fields prefix_key, color_scheme,
\* status_position, base_index, terminal_mode, plugins and history_limit,
\* the value the questionnaire stored, not a default put in its place.
C30_AnswersKept ==
    (Sanitized /\ raw \in AnswerInputs)
    => \A k \in AnsweredFields : config[k] = raw.d[k]

=============================================================================
